---- MODULE Spec2Model ----
(***************************************************************************)
(* State-machine model of the StudyFriend backend: the payment / wallet    *)
(* service, session booking, OTP verification, test scoring, the role      *)
(* check dependency and the admin CRUD handlers over the document store.   *)
(* Money is counted in hundredths (cents), time in minutes.                *)
(***************************************************************************)
EXTENDS Integers, Sequences, FiniteSets, TLC

VARIABLES
    now,            \* datetime.utcnow(), in minutes
    payments,       \* db.payments: sequence of documents, payment_id = index
    users,          \* db.users: function user id -> document
    transactions,   \* db.transactions: sequence of documents
    sessions,       \* db.sessions: sequence of documents, session_id = index
    notifications,  \* db.notifications: sequence of documents
    result,         \* return value of the last service call
    last,           \* the last HTTP exchange: operation, inputs, status code, body
    otps,           \* db.otps: sequence of documents
    otpCalls,       \* OTPService.verify_otp calls in flight: position and locals
    evaluation,     \* TestService.evaluate_test: its inputs and its return value
    colleges,       \* db.colleges: document id -> document (deleted ones marked)
    subjects,       \* db.subjects: document id -> document (deleted ones marked)
    courses,        \* db.courses: document id -> document (deleted ones marked)
    requests,       \* HTTP requests in flight: position and locals
    rate_limiter,   \* RateLimiter.requests: client key -> request times
    time_time,      \* time.time(), in seconds
    cache,          \* SimpleCache.cache: key -> entry
    temp_registrations, \* db.temp_registrations
    content         \* db.materials, db.assignments, db.mock_tests, db.queries

storeVars == <<now, payments, users, transactions, sessions, notifications, result, last>>
otpVars == <<otps, otpCalls>>
auxVars == <<time_time, cache, temp_registrations, content>>
adminVars == <<colleges, subjects, courses, requests, rate_limiter, auxVars>>
vars == <<storeVars, otpVars, evaluation, adminVars>>

(***************************************************************************)
(* Bounds of the model                                                     *)
(***************************************************************************)
MaxPayments == 1
MaxSessions == 2
MaxTxns == 4
MaxTime == 60
TickMinutes == 30

(***************************************************************************)
(* Program constants                                                       *)
(***************************************************************************)
PaymentExpiryMinutes == 30
FixedFeeCents == 30

supported_gateways == {"razorpay", "stripe", "paypal"}
supported_currencies == {"INR", "USD", "EUR"}
supported_payment_methods == {"card", "upi", "wallet", "netbanking", "bank_transfer"}

\* Absent optional values (Python None)
None == "None"

\* request.client.host values seen by the rate limiter
RateClients == {"10.0.0.1", "10.0.0.2"}

\* the faculty collections, empty
NoContent == [materials |-> <<>>, assignments |-> <<>>, mock_tests |-> <<>>, queries |-> <<>>]

\* process start: the clock at 0, nothing cached, no pending registration
InitAux ==
    /\ time_time = 0
    /\ cache = <<>>
    /\ temp_registrations = <<>>
    /\ content = NoContent

(***************************************************************************)
(* Response envelopes                                                      *)
(***************************************************************************)
\* app.utils.helpers.success_response: the body's keys
success_response == {"success", "message", "data"}

\* app.utils.enhanced_responses.success_response: "data" only when not None
enhanced_success_response(data) ==
    {"success", "message", "timestamp"} \cup (IF data # None THEN {"data"} ELSE {})

\* handle_http_exception: the body's keys of an HTTPException
handle_http_exception == {"success", "message", "error_code"}

\* handle_generic_exception: the body's keys of any other exception
handle_generic_exception == {"success", "message", "error_code"}

Respond(op, args, code, body) ==
    [op |-> op, args |-> args, code |-> code, body |-> body]

HTTPException(op, args, code) == Respond(op, args, code, handle_http_exception)

NoCall == [success |-> FALSE, message |-> "none"]

(***************************************************************************)
(* Fees                                                                    *)
(***************************************************************************)
\* fee_rates of _calculate_fees, in 1/10000 (0.0299 = 299)
fee_rates(gateway, payment_method) ==
    IF gateway = "razorpay"
    THEN CASE payment_method = "card" -> 299
           [] payment_method = "upi" -> 0
           [] payment_method = "wallet" -> 199
           [] payment_method = "netbanking" -> 199
           [] payment_method = "bank_transfer" -> 0
           [] OTHER -> 200
    ELSE IF gateway \in {"stripe", "paypal"}
    THEN (IF payment_method \in supported_payment_methods THEN 290 ELSE 200)
    ELSE 200

\* round(x, 2) of x = num / 10000 cents: the nearest cent.  An exact decimal
\* tie has no exact binary representation, so the float lands on either
\* neighbour: both are outcomes.
Round2(num) ==
    LET q == num \div 10000
        r == num % 10000
    IN  IF 2 * r < 10000 THEN {q}
        ELSE IF 2 * r > 10000 THEN {q + 1}
        ELSE {q, q + 1}

_calculate_fees_nofixed(amount, gateway, payment_method) ==
    Round2(amount * fee_rates(gateway, payment_method))

\* _calculate_fees: the set of values round(fee, 2) can take, in cents
_calculate_fees(amount, gateway, payment_method) ==
    LET base_rate == fee_rates(gateway, payment_method)
        fee == amount * base_rate
                 + (IF gateway \in {"stripe", "paypal"} THEN FixedFeeCents * 10000 ELSE 0)
    IN  Round2(fee)

(***************************************************************************)
(* Payment service                                                         *)
(***************************************************************************)
PayRef(id) == [kind |-> "payment", id |-> id]
RefundRef(id) == [kind |-> "refund", id |-> id]
SessionRef(id) == [kind |-> "session", id |-> id]

\* Signatures: None, the HMAC of one payment's "order_id|payment_id", a string
\* starting with "whsec_", or any other string
NoSignature == [kind |-> "None", of |-> 0]
HmacOf(id) == [kind |-> "hmac", of |-> id]
WhsecSignature == [kind |-> "whsec_", of |-> 0]
Signatures == {NoSignature, WhsecSignature}
                 \cup {HmacOf(i) : i \in 1..MaxPayments + 1}

\* gateway_data: None, {} or a dict with a "status"
GatewayData == {None, "COMPLETED", "captured"}

\* PaymentService.initiate_payment (service part): stores the payment document
initiate_payment(user_id, amount, currency, purpose, gateway, payment_method, fee_amount) ==
    LET payment_id == Len(payments) + 1
        payment_data ==
            [payment_id |-> payment_id,
             user_id |-> user_id,
             amount |-> amount,
             fee_amount |-> fee_amount,
             total_amount |-> amount + fee_amount,
             currency |-> currency,
             purpose |-> purpose,
             gateway |-> gateway,
             payment_method |-> payment_method,
             status |-> "created",
             created_at |-> now,
             expires_at |-> now + PaymentExpiryMinutes]
    IN  /\ payments' = Append(payments, payment_data)
        /\ result' = [success |-> TRUE, message |-> "created",
                      payment_id |-> payment_id, status |-> "created",
                      amount |-> amount, fee_amount |-> fee_amount,
                      total_amount |-> amount + fee_amount]

\* POST /payment/initiate
InitiatePayment(user_id, amount, currency, purpose, gateway, payment_method) ==
    LET args == [user_id |-> user_id, amount |-> amount, currency |-> currency,
                 purpose |-> purpose, gateway |-> gateway,
                 payment_method |-> payment_method]
    IN  /\ Len(payments) < MaxPayments
        /\ IF amount <= 0
              \/ gateway \notin supported_gateways
              \/ currency \notin supported_currencies
              \/ payment_method \notin supported_payment_methods
           THEN /\ last' = HTTPException("initiate_payment", args, 400)
                /\ result' = NoCall
                /\ UNCHANGED payments
           ELSE /\ \E fee_amount \in _calculate_fees(amount, gateway, payment_method) :
                      initiate_payment(user_id, amount, currency, purpose, gateway,
                                       payment_method, fee_amount)
                /\ last' = Respond("initiate_payment", args, 200, success_response)
        /\ UNCHANGED <<now, users, transactions, sessions, notifications>>

\* PaymentService._verify_gateway_signature
_verify_gateway_signature(payment, signature, gateway_data) ==
    IF payment.gateway = "razorpay"
    THEN signature = HmacOf(payment.payment_id)
    ELSE IF payment.gateway = "stripe"
    THEN signature.kind = "whsec_"
    ELSE IF payment.gateway = "paypal"
    THEN gateway_data = "COMPLETED"
    ELSE TRUE

\* $inc of wallet_balance on the user document, a no-op when no document matches
IncWallet(us, user_id, amount) ==
    IF user_id \in DOMAIN us
    THEN [us EXCEPT ![user_id].wallet_balance = @ + amount]
    ELSE us

verify_payment_noexpiry(payment_id, signature, gateway_data) ==
    IF payment_id \notin DOMAIN payments
    THEN /\ result' = [success |-> FALSE, message |-> "Payment not found"]
         /\ UNCHANGED <<payments, users, transactions>>
    ELSE LET payment == payments[payment_id] IN
         /\ result' = [success |-> TRUE, message |-> "Payment verified successfully"]
         /\ payments' = [payments EXCEPT ![payment_id].status = "completed"]
         /\ users' = IncWallet(users, payment.user_id, payment.amount)
         /\ transactions' = Append(transactions,
                [user_id |-> payment.user_id, amount |-> payment.amount,
                 type |-> "credit", purpose |-> payment.purpose,
                 reference_id |-> PayRef(payment_id)])

\* PaymentService.verify_payment
verify_payment(payment_id, signature, gateway_data) ==
    IF payment_id \notin DOMAIN payments
    THEN /\ result' = [success |-> FALSE, message |-> "Payment not found"]
         /\ UNCHANGED <<payments, users, transactions>>
    ELSE LET payment == payments[payment_id] IN
         IF payment.expires_at < now
         THEN /\ payments' = [payments EXCEPT ![payment_id].status = "expired"]
              /\ result' = [success |-> FALSE, message |-> "Payment has expired"]
              /\ UNCHANGED <<users, transactions>>
         ELSE IF ~ _verify_gateway_signature(payment, signature, gateway_data)
         THEN /\ result' = [success |-> FALSE, message |-> "Invalid payment signature"]
              /\ UNCHANGED <<payments, users, transactions>>
         ELSE /\ payments' = [payments EXCEPT ![payment_id].status = "completed"]
              /\ users' = IF payment.purpose = "wallet_recharge"
                          THEN IncWallet(users, payment.user_id, payment.amount)
                          ELSE users
              /\ transactions' = Append(transactions,
                     [user_id |-> payment.user_id, amount |-> payment.amount,
                      type |-> "credit", purpose |-> payment.purpose,
                      reference_id |-> PayRef(payment_id)])
              /\ result' = [success |-> TRUE, message |-> "Payment verified successfully"]

\* POST /payment/verify
VerifyPayment(payment_id, signature, gateway_data) ==
    LET args == [payment_id |-> payment_id, signature |-> signature,
                 gateway_data |-> gateway_data]
    IN  /\ Len(transactions) < MaxTxns
        /\ verify_payment(payment_id, signature, gateway_data)
        /\ last' = IF result'.success
                   THEN Respond("verify_payment", args, 200, success_response)
                   ELSE HTTPException("verify_payment", args, 400)
        /\ UNCHANGED <<now, sessions, notifications>>

\* the mutation of process_refund that refunds a payment of any status
process_refund_anystatus(payment_id, amount) ==
    IF payment_id \notin DOMAIN payments
    THEN /\ result' = [success |-> FALSE, message |-> "Payment not found"]
         /\ UNCHANGED <<payments, users, transactions>>
    ELSE LET payment == payments[payment_id]
             refund_amount == IF amount # 0 THEN amount ELSE payment.amount
         IN
         IF refund_amount > payment.amount
         THEN /\ result' = [success |-> FALSE,
                            message |-> "Refund amount cannot exceed payment amount"]
              /\ UNCHANGED <<payments, users, transactions>>
         ELSE /\ payments' = [payments EXCEPT ![payment_id].status = "refunded"]
              /\ users' = IncWallet(users, payment.user_id, refund_amount)
              /\ transactions' = Append(transactions,
                     [user_id |-> payment.user_id, amount |-> refund_amount,
                      type |-> "credit", purpose |-> "refund",
                      reference_id |-> RefundRef(payment_id)])
              /\ result' = [success |-> TRUE, message |-> "Refund processed successfully"]

\* PaymentService.process_refund; amount 0 stands for None and for 0.0 (both falsy)
process_refund(payment_id, amount) ==
    IF payment_id \notin DOMAIN payments
    THEN /\ result' = [success |-> FALSE, message |-> "Payment not found"]
         /\ UNCHANGED <<payments, users, transactions>>
    ELSE LET payment == payments[payment_id]
             refund_amount == IF amount # 0 THEN amount ELSE payment.amount
         IN
         IF payment.status # "completed"
         THEN /\ result' = [success |-> FALSE,
                            message |-> "Only completed payments can be refunded"]
              /\ UNCHANGED <<payments, users, transactions>>
         ELSE IF refund_amount > payment.amount
         THEN /\ result' = [success |-> FALSE,
                            message |-> "Refund amount cannot exceed payment amount"]
              /\ UNCHANGED <<payments, users, transactions>>
         ELSE /\ payments' = [payments EXCEPT ![payment_id].status = "refunded"]
              /\ users' = IncWallet(users, payment.user_id, refund_amount)
              /\ transactions' = Append(transactions,
                     [user_id |-> payment.user_id, amount |-> refund_amount,
                      type |-> "credit", purpose |-> "refund",
                      reference_id |-> RefundRef(payment_id)])
              /\ result' = [success |-> TRUE, message |-> "Refund processed successfully"]

\* POST /payment/refund/{payment_id}
RefundPayment(payment_id, amount) ==
    LET args == [payment_id |-> payment_id, amount |-> amount]
    IN  /\ Len(transactions) < MaxTxns
        /\ process_refund(payment_id, amount)
        /\ last' = IF result'.success
                   THEN Respond("refund_payment", args, 200, success_response)
                   ELSE HTTPException("refund_payment", args, 400)
        /\ UNCHANGED <<now, sessions, notifications>>

\* f"pay_{payment_id[-16:]}": the payment the last 16 characters of a gateway
\* entity id name.  An entity id is modelled by <<prefix, tail>>; our own ids
\* are "pay_" followed by the 16-character tail.
EntityIds == {[prefix |-> px, tail |-> t] : px \in {"pay_live_"}, t \in 1..MaxPayments}
ConvertEntityId(entity_id) == entity_id.tail

\* PaymentService.handle_webhook with _process_razorpay_webhook and
\* POST /payment/webhook/{gateway}; _verify_webhook_signature accepts everything
HandlePaymentWebhook(gateway, event, entity_id, entity_status) ==
    LET args == [gateway |-> gateway, event |-> event, entity_id |-> entity_id,
                 entity_status |-> entity_status, signature |-> NoSignature]
    IN  /\ Len(transactions) < MaxTxns
        /\ IF gateway = "razorpay" /\ event = "payment.captured"
           THEN verify_payment(ConvertEntityId(entity_id), NoSignature, entity_status)
           ELSE /\ result' = [success |-> gateway \in supported_gateways,
                              message |-> "webhook processed"]
                /\ UNCHANGED <<payments, users, transactions>>
        /\ last' = IF result'.success
                   THEN Respond("handle_payment_webhook", args, 200, success_response)
                   ELSE HTTPException("handle_payment_webhook", args, 400)
        /\ UNCHANGED <<now, sessions, notifications>>

\* The clock advances
Tick ==
    /\ now + TickMinutes <= MaxTime
    /\ now' = now + TickMinutes
    /\ result' = NoCall
    /\ last' = Respond("tick", None, 0, {})
    /\ UNCHANGED <<payments, users, transactions, sessions, notifications>>

(***************************************************************************)
(* Users                                                                   *)
(***************************************************************************)
\* A user document as created by verify_otp (registration): wallet 0,
\* students verified, faculty not; admins verify faculty later
UserDoc(role, verified, wallet_balance) ==
    [role |-> role, verified |-> verified, wallet_balance |-> wallet_balance]

InitUsers ==
    [u \in {"stu1", "fac1", "fac2", "adm1"} |->
        CASE u = "stu1" -> UserDoc("student", TRUE, 0)
          [] u = "fac1" -> UserDoc("faculty", TRUE, 0)
          [] u = "fac2" -> UserDoc("faculty", FALSE, 0)
          [] OTHER -> UserDoc("admin", TRUE, 0)]

NoExchange == Respond("none", None, 0, {})

(***************************************************************************)
(* Specification of the payment service                                    *)
(***************************************************************************)
PayAmounts == {0, 100}
PayGateways == supported_gateways \cup {"bitpay"}
WebhookGateways == {"razorpay", "stripe", "bitpay"}
PayPurposes == {"wallet_recharge", "course_fee"}
RefundAmounts == {0, 40, 150, -40}

InitOther ==
    /\ otps = <<>>
    /\ otpCalls = <<>>
    /\ evaluation = None
    /\ colleges = <<>>
    /\ subjects = <<>>
    /\ courses = <<>>
    /\ requests = <<>>
    /\ rate_limiter = [key \in RateClients |-> <<>>]
    /\ InitAux

InitPay ==
    /\ now = 0
    /\ payments = <<>>
    /\ users = InitUsers
    /\ transactions = <<>>
    /\ sessions = <<>>
    /\ notifications = <<>>
    /\ result = NoCall
    /\ last = NoExchange
    /\ InitOther

InitiatePaymentStep ==
    \E amount \in PayAmounts, gateway \in PayGateways, purpose \in PayPurposes :
        /\ InitiatePayment("stu1", amount, "INR", purpose, gateway, "upi")
        /\ UNCHANGED <<otpVars, evaluation, adminVars>>

VerifyPaymentStep ==
    \E payment_id \in 1..MaxPayments, signature \in Signatures,
       gateway_data \in {None, "COMPLETED"} :
        /\ VerifyPayment(payment_id, signature, gateway_data)
        /\ UNCHANGED <<otpVars, evaluation, adminVars>>

RefundPaymentStep ==
    \E payment_id \in 1..MaxPayments, amount \in RefundAmounts :
        /\ RefundPayment(payment_id, amount)
        /\ UNCHANGED <<otpVars, evaluation, adminVars>>

HandlePaymentWebhookStep ==
    \E gateway \in WebhookGateways, event \in {"payment.captured", "payment.failed"},
       entity_id \in EntityIds, entity_status \in {"COMPLETED", "captured"} :
        /\ HandlePaymentWebhook(gateway, event, entity_id, entity_status)
        /\ UNCHANGED <<otpVars, evaluation, adminVars>>

TickStep ==
    /\ Tick
    /\ UNCHANGED <<otpVars, evaluation, adminVars>>

NextPay ==
    \/ InitiatePaymentStep
    \/ VerifyPaymentStep
    \/ RefundPaymentStep
    \/ HandlePaymentWebhookStep
    \/ TickStep

SpecPay == InitPay /\ [][NextPay]_vars

(***************************************************************************)
(* Session booking (student routes) and session updates (faculty routes)   *)
(***************************************************************************)
MaxNotifications == 4
StartFunds == 100

\* RequestValidationError of a body that fails its pydantic model: FastAPI's 422
RequestValidationError(op, args) == Respond(op, args, 422, {"detail"})

BookSession_nobalancecheck(student_id, faculty_id, amount) ==
    LET args == [student_id |-> student_id, faculty_id |-> faculty_id, amount |-> amount]
        session_id == Len(sessions) + 1
    IN  /\ sessions' = Append(sessions,
               [session_id |-> session_id, student_id |-> student_id,
                faculty_id |-> faculty_id, amount |-> amount,
                status |-> "pending", payment_status |-> "pending"])
        /\ users' = IncWallet(users, student_id, 0 - amount)
        /\ transactions' = Append(transactions,
               [user_id |-> student_id, amount |-> amount, type |-> "debit",
                purpose |-> "Session booking", reference_id |-> SessionRef(session_id)])
        /\ notifications' = Append(notifications, [user_id |-> faculty_id, type |-> "info"])
        /\ last' = Respond("book_session", args, 200, success_response)

\* POST /students/book-session, for the authenticated student
BookSession(student_id, faculty_id, amount) ==
    LET args == [student_id |-> student_id, faculty_id |-> faculty_id, amount |-> amount]
        faculty_found == /\ faculty_id \in DOMAIN users
                         /\ users[faculty_id].role = "faculty"
                         /\ users[faculty_id].verified
        session_id == Len(sessions) + 1
    IN  IF ~ faculty_found
        THEN /\ last' = HTTPException("book_session", args, 404)
             /\ UNCHANGED <<sessions, users, transactions, notifications>>
        ELSE IF student_id \notin DOMAIN users
        THEN \* student is None: student["wallet_balance"] raises TypeError
             /\ last' = Respond("book_session", args, 500, handle_generic_exception)
             /\ UNCHANGED <<sessions, users, transactions, notifications>>
        ELSE IF users[student_id].wallet_balance < amount
        THEN /\ last' = HTTPException("book_session", args, 400)
             /\ UNCHANGED <<sessions, users, transactions, notifications>>
        ELSE /\ sessions' = Append(sessions,
                    [session_id |-> session_id, student_id |-> student_id,
                     faculty_id |-> faculty_id, amount |-> amount,
                     status |-> "pending", payment_status |-> "pending"])
             /\ users' = IncWallet(users, student_id, 0 - amount)
             /\ transactions' = Append(transactions,
                    [user_id |-> student_id, amount |-> amount, type |-> "debit",
                     purpose |-> "Session booking", reference_id |-> SessionRef(session_id)])
             /\ notifications' = Append(notifications, [user_id |-> faculty_id, type |-> "info"])
             /\ last' = Respond("book_session", args, 200, success_response)

SessionUpdate_anystatus(status) == TRUE

\* SessionUpdate.status: Optional[Literal["accepted", "rejected", "completed", "cancelled"]]
SessionUpdate(status) ==
    status \in {None, "accepted", "rejected", "completed", "cancelled"}

\* PATCH /faculties/update-session/{session_id}, for the authenticated faculty
UpdateSession(faculty_id, session_id, status) ==
    LET args == [faculty_id |-> faculty_id, session_id |-> session_id, status |-> status]
    IN  IF ~ SessionUpdate(status)
        THEN /\ last' = RequestValidationError("update_session", args)
             /\ UNCHANGED <<sessions, users, transactions, notifications>>
        ELSE IF session_id \notin DOMAIN sessions
        THEN /\ last' = HTTPException("update_session", args, 404)
             /\ UNCHANGED <<sessions, users, transactions, notifications>>
        ELSE IF sessions[session_id].faculty_id # faculty_id
        THEN /\ last' = HTTPException("update_session", args, 403)
             /\ UNCHANGED <<sessions, users, transactions, notifications>>
        ELSE LET session == sessions[session_id]
                 refund == /\ status \in {"rejected", "cancelled"}
                           /\ session.payment_status # "refunded"
                 payment_status == IF status = "accepted" THEN "completed"
                                   ELSE IF refund THEN "refunded"
                                   ELSE session.payment_status
             IN
             /\ users' = IF refund
                         THEN IncWallet(users, session.student_id, session.amount)
                         ELSE users
             /\ transactions' = IF refund
                                THEN Append(transactions,
                                       [user_id |-> session.student_id,
                                        amount |-> session.amount, type |-> "credit",
                                        purpose |-> "Session refund",
                                        reference_id |-> SessionRef(session_id)])
                                ELSE transactions
             /\ sessions' = IF status # None
                            THEN [sessions EXCEPT ![session_id].status = status,
                                                  ![session_id].payment_status = payment_status]
                            ELSE sessions
             /\ IF faculty_id \in DOMAIN users
                THEN /\ notifications' = Append(notifications,
                            [user_id |-> session.student_id,
                             type |-> IF status = "accepted" THEN "info" ELSE "warning"])
                     /\ last' = Respond("update_session", args, 200, success_response)
                ELSE \* faculty is None: faculty['name'] raises TypeError
                     /\ notifications' = notifications
                     /\ last' = Respond("update_session", args, 500, handle_generic_exception)

(***************************************************************************)
(* Specification of session booking                                        *)
(***************************************************************************)
SessionAmounts == {0 - 60, 60, 150}
SessionFaculty == {"fac1", "fac2", "stu1", "nobody"}
SessionStatusInputs == {None, "pending", "accepted", "rejected", "completed", "cancelled"}

\* The collections after stu1 recharged the wallet with StartFunds
RechargedPayment ==
    [payment_id |-> 1, user_id |-> "stu1", amount |-> StartFunds, fee_amount |-> 0,
     total_amount |-> StartFunds, currency |-> "INR", purpose |-> "wallet_recharge",
     gateway |-> "razorpay", payment_method |-> "upi", status |-> "completed",
     created_at |-> 0, expires_at |-> PaymentExpiryMinutes]

RechargeTransaction ==
    [user_id |-> "stu1", amount |-> StartFunds, type |-> "credit",
     purpose |-> "wallet_recharge", reference_id |-> PayRef(1)]

InitSession ==
    /\ now = 0
    /\ payments = <<RechargedPayment>>
    /\ users = IncWallet(InitUsers, "stu1", StartFunds)
    /\ transactions = <<RechargeTransaction>>
    /\ sessions = <<>>
    /\ notifications = <<>>
    /\ result = NoCall
    /\ last = NoExchange
    /\ InitOther

BookSessionStep ==
    \E faculty_id \in SessionFaculty, amount \in SessionAmounts :
        /\ Len(sessions) < MaxSessions
        /\ Len(transactions) < MaxTxns
        /\ Len(notifications) < MaxNotifications
        /\ BookSession("stu1", faculty_id, amount)
        /\ UNCHANGED <<now, payments, result, otpVars, evaluation, adminVars>>

UpdateSessionStep ==
    \E faculty_id \in {"fac1", "fac2"}, session_id \in 1..MaxSessions,
       status \in SessionStatusInputs :
        /\ Len(transactions) < MaxTxns
        /\ Len(notifications) < MaxNotifications
        /\ UpdateSession(faculty_id, session_id, status)
        /\ UNCHANGED <<now, payments, result, otpVars, evaluation, adminVars>>

NextSession == BookSessionStep \/ UpdateSessionStep

SpecSession == InitSession /\ [][NextSession]_vars

(***************************************************************************)
(* OTP service                                                             *)
(***************************************************************************)
MaxOtps == 2
NumOtpCalls == 2
otp_expiry_minutes == 10

OtpCodes == {"111111", "222222"}
OtpEmails == {"a@example.com"}
OtpPurposes == {"registration", "password_reset"}

\* OTPService.create_otp; otp_code is what generate_otp drew
create_otp(email, purpose, otp_code) ==
    otps' = Append(otps,
                [email |-> email, otp_code |-> otp_code, purpose |-> purpose,
                 expires_at |-> now + otp_expiry_minutes, is_used |-> FALSE,
                 created_at |-> now])

\* The filter of verify_otp's find_one
OtpMatches(otp, email, otp_code, purpose) ==
    /\ otp.email = email
    /\ otp.otp_code = otp_code
    /\ otp.purpose = purpose
    /\ otp.is_used = FALSE
    /\ otp.expires_at > now

\* db.otps.find_one: the first matching document, 0 when there is none
FindOtp(email, otp_code, purpose) ==
    LET matching == {i \in DOMAIN otps : OtpMatches(otps[i], email, otp_code, purpose)}
    IN  IF matching = {} THEN 0
        ELSE CHOOSE i \in matching : \A j \in matching : i <= j

IdleOtpCall ==
    [pc |-> "idle", email |-> None, otp_code |-> None, purpose |-> None,
     otp |-> 0, ret |-> FALSE]

\* OTPService.verify_otp, first database call: find_one, and the return of False
VerifyOtpFind(c, email, otp_code, purpose) ==
    /\ otpCalls[c].pc \in {"idle", "done"}
    /\ LET otp == FindOtp(email, otp_code, purpose)
       IN  otpCalls' = [otpCalls EXCEPT ![c] =
               [pc |-> IF otp = 0 THEN "done" ELSE "update_one",
                email |-> email, otp_code |-> otp_code, purpose |-> purpose,
                otp |-> otp, ret |-> FALSE]]
    /\ UNCHANGED otps

\* OTPService.verify_otp, second database call: update_one by _id, and the
\* return of True
VerifyOtpUpdate(c) ==
    /\ otpCalls[c].pc = "update_one"
    /\ otps' = [otps EXCEPT ![otpCalls[c].otp].is_used = TRUE]
    /\ otpCalls' = [otpCalls EXCEPT ![c].pc = "done", ![c].ret = TRUE]

(***************************************************************************)
(* Specification of the OTP service under concurrent requests              *)
(***************************************************************************)
InitOtp ==
    /\ now = 0
    /\ payments = <<>>
    /\ users = InitUsers
    /\ transactions = <<>>
    /\ sessions = <<>>
    /\ notifications = <<>>
    /\ result = NoCall
    /\ last = NoExchange
    /\ otps = <<>>
    /\ otpCalls = [c \in 1..NumOtpCalls |-> IdleOtpCall]
    /\ evaluation = None
    /\ colleges = <<>>
    /\ subjects = <<>>
    /\ courses = <<>>
    /\ requests = <<>>
    /\ rate_limiter = [key \in RateClients |-> <<>>]
    /\ InitAux

CreateOtpStep ==
    \E email \in OtpEmails, purpose \in OtpPurposes, otp_code \in OtpCodes :
        /\ Len(otps) < MaxOtps
        /\ create_otp(email, purpose, otp_code)
        /\ UNCHANGED <<storeVars, otpCalls, evaluation, adminVars>>

VerifyOtpFindStep ==
    \E c \in 1..NumOtpCalls, email \in OtpEmails, otp_code \in OtpCodes,
       purpose \in OtpPurposes :
        /\ VerifyOtpFind(c, email, otp_code, purpose)
        /\ UNCHANGED <<storeVars, evaluation, adminVars>>

VerifyOtpUpdateStep ==
    \E c \in 1..NumOtpCalls :
        /\ VerifyOtpUpdate(c)
        /\ UNCHANGED <<storeVars, evaluation, adminVars>>

OtpTickStep ==
    /\ now + TickMinutes <= MaxTime
    /\ now' = now + TickMinutes
    /\ UNCHANGED <<payments, users, transactions, sessions, notifications, result, last,
                   otpVars, evaluation, adminVars>>

NextOtp ==
    \/ CreateOtpStep
    \/ VerifyOtpFindStep
    \/ VerifyOtpUpdateStep
    \/ OtpTickStep

SpecOtp == InitOtp /\ [][NextOtp]_vars

(***************************************************************************)
(* Test scoring                                                            *)
(***************************************************************************)
MaxQuestions == 2
MaxMarks == 2

\* Question: correct_answer (index of the correct option) and marks (any int)
Questions == [correct_answer : 0..1, marks : (0 - 1)..MaxMarks]
Answers == 0..1

SeqsUpTo(S, n) == UNION {[1..k -> S] : k \in 0..n}

\* round(n / d, 0) for d > 0, ties to the even neighbour
RoundHalfEven(n, d) ==
    LET q == n \div d
        r == n % d
    IN  IF 2 * r < d THEN q
        ELSE IF 2 * r > d THEN q + 1
        ELSE IF q % 2 = 0 THEN q ELSE q + 1

\* The loop of evaluate_test from question i on, with its two accumulators
RECURSIVE EvaluateLoop(_, _, _, _, _)
EvaluateLoop(questions, submitted_answers, i, score, total_marks) ==
    IF i > Len(questions)
    THEN [score |-> score, total_marks |-> total_marks]
    ELSE LET question == questions[i]
             is_correct == submitted_answers[i] = question.correct_answer
         IN  EvaluateLoop(questions, submitted_answers, i + 1,
                          IF is_correct THEN score + question.marks ELSE score,
                          total_marks + question.marks)

evaluate_test_nocompare(questions, submitted_answers) ==
    LET correct == [i \in DOMAIN questions |-> questions[i].correct_answer]
        total == EvaluateLoop(questions, correct, 1, 0, 0).total_marks
    IN  [score |-> total, total_marks |-> total,
         percentage |-> IF total > 0 THEN 10000 ELSE 0,
         detailed_results |-> Len(questions)]

\* TestService.evaluate_test; percentage in hundredths (round(percentage, 2))
evaluate_test(questions, submitted_answers) ==
    IF Len(submitted_answers) # Len(questions)
    THEN [error |-> "Number of answers doesn't match number of questions"]
    ELSE LET sums == EvaluateLoop(questions, submitted_answers, 1, 0, 0)
             score == sums.score
             total_marks == sums.total_marks
         IN  [score |-> score,
              total_marks |-> total_marks,
              percentage |-> IF total_marks > 0
                             THEN RoundHalfEven(score * 10000, total_marks)
                             ELSE 0,
              detailed_results |-> Len(questions)]

(***************************************************************************)
(* Specification of test scoring: any question and answer lists            *)
(***************************************************************************)
InitEval ==
    /\ now = 0
    /\ payments = <<>>
    /\ users = InitUsers
    /\ transactions = <<>>
    /\ sessions = <<>>
    /\ notifications = <<>>
    /\ result = NoCall
    /\ last = NoExchange
    /\ otps = <<>>
    /\ otpCalls = <<>>
    /\ \E questions \in SeqsUpTo(Questions, MaxQuestions),
          submitted_answers \in SeqsUpTo(Answers, MaxQuestions) :
          evaluation = [questions |-> questions,
                        submitted_answers |-> submitted_answers,
                        called |-> FALSE, out |-> [error |-> "not called"]]
    /\ colleges = <<>>
    /\ subjects = <<>>
    /\ courses = <<>>
    /\ requests = <<>>
    /\ rate_limiter = [key \in RateClients |-> <<>>]
    /\ InitAux

EvaluateTestStep ==
    /\ ~ evaluation.called
    /\ evaluation' = [evaluation EXCEPT
                        !.called = TRUE,
                        !.out = evaluate_test(evaluation.questions,
                                              evaluation.submitted_answers)]
    /\ UNCHANGED <<storeVars, otpVars, adminVars>>

NextEval == EvaluateTestStep

SpecEval == InitEval /\ [][NextEval]_vars

(***************************************************************************)
(* Specification of fee calculation: payments of any gateway and method    *)
(***************************************************************************)
FeeAmounts == {0, 1, 100, 500, 1000, 5000, 9999, 12345}
FeeGateways == supported_gateways \cup {"bitpay"}
FeeMethods == supported_payment_methods \cup {"cash"}

InitiateAnyPaymentStep ==
    \E amount \in FeeAmounts, gateway \in FeeGateways,
       payment_method \in FeeMethods :
        /\ InitiatePayment("stu1", amount, "INR", "course_fee", gateway, payment_method)
        /\ UNCHANGED <<otpVars, evaluation, adminVars>>

NextFee == InitiateAnyPaymentStep

SpecFee == InitPay /\ [][NextFee]_vars

(***************************************************************************)
(* Request pipeline: middleware, role-check dependency, handler            *)
(***************************************************************************)
MaxRequests == 2

\* RateLimiter.rate_limits: (limit, window in seconds)
rate_limits ==
    [auth |-> [limit |-> 5, window |-> 60],
     api |-> [limit |-> 100, window |-> 60],
     webhook |-> [limit |-> 10, window |-> 60],
     ai |-> [limit |-> 50, window |-> 60]]

is_allowed_offbyone(key, limit_type) ==
    LET limit == rate_limits[limit_type].limit
        window == rate_limits[limit_type].window
        kept == SelectSeq(rate_limiter[key], LAMBDA req_time : time_time - req_time < window)
    IN  IF Len(kept) > limit
        THEN [allowed |-> FALSE, requests |-> kept]
        ELSE [allowed |-> TRUE, requests |-> Append(kept, time_time)]

\* RateLimiter.is_allowed: the verdict and the list it leaves behind
is_allowed(key, limit_type) ==
    LET limit == rate_limits[limit_type].limit
        window == rate_limits[limit_type].window
        kept == SelectSeq(rate_limiter[key], LAMBDA req_time : time_time - req_time < window)
    IN  IF Len(kept) >= limit
        THEN [allowed |-> FALSE, requests |-> kept]
        ELSE [allowed |-> TRUE, requests |-> Append(kept, time_time)]

\* request.url.path as its segments; path.startswith("/auth") looks at the first
LimitType(path) ==
    IF path[1] = "auth" THEN "auth"
    ELSE IF path[1] = "payment" /\ Len(path) > 1 /\ path[2] = "webhook" THEN "webhook"
    ELSE IF path[1] = "ai" THEN "ai"
    ELSE "api"

Endpoints == {"delete_user", "book_session"}

EndpointPath(endpoint) ==
    CASE endpoint = "delete_user" -> <<"api", "v1", "admin", "users">>
      [] endpoint = "login" -> <<"api", "v1", "auth", "login">>
      [] endpoint = "handle_payment_webhook" -> <<"api", "v1", "payment", "webhook">>
      [] endpoint = "ai_query" -> <<"api", "v1", "ai", "query">>
      [] OTHER -> <<"api", "v1", "students", "book-session">>

EndpointMethod(endpoint) == IF endpoint = "delete_user" THEN "DELETE" ELSE "POST"

\* the list given to require_role in the endpoint's declaration
required_roles(endpoint) == IF endpoint = "delete_user" THEN {"admin"} ELSE {"student"}

\* Bearer tokens: what the signature check makes of them and what they carry
AuthTokens ==
    {[valid |-> FALSE, user_id |-> "adm1", role |-> "admin"],
     [valid |-> TRUE, user_id |-> "adm1", role |-> "admin"],
     [valid |-> TRUE, user_id |-> "stu1", role |-> "student"],
     [valid |-> TRUE, user_id |-> "stu1", role |-> None]}

\* app.utils.jwt_handler.decode_jwt: the payload, or nothing (<<>>) for a
\* token that does not verify
decode_jwt(token) ==
    IF token.valid THEN <<[user_id |-> token.user_id, role |-> token.role]>> ELSE <<>>

JSONResponse == {"success", "message", "error_code"}

NewRequest(endpoint, token, suspicious, arg) ==
    [endpoint |-> endpoint, token |-> token, client |-> "10.0.0.1",
     suspicious |-> suspicious, arg |-> arg, pc |-> "validation_middleware",
     current_user |-> <<>>, code |-> 0, responder |-> None, db_calls |-> 0,
     checked_at |-> 0 - 1]

ReceiveRequest(endpoint, token, suspicious, arg) ==
    /\ Len(requests) < MaxRequests
    /\ requests' = Append(requests, NewRequest(endpoint, token, suspicious, arg))
    /\ last' = Respond("receive", arg, 0, {})
    /\ UNCHANGED <<now, payments, users, transactions, sessions, notifications, result>>
    /\ UNCHANGED <<otpVars, evaluation, colleges, subjects, courses, rate_limiter, auxVars>>

\* the request is answered with `code` by `responder`
Answered(r, code, responder, calls) ==
    [requests EXCEPT ![r].pc = "done", ![r].code = code, ![r].responder = responder,
                     ![r].db_calls = @ + calls]

\* the request moves on to the next stage
PassedOn(r, pc, calls) ==
    [requests EXCEPT ![r].pc = pc, ![r].db_calls = @ + calls]

\* validation_middleware, the outermost middleware
validation_middleware(r) ==
    LET req == requests[r]
    IN  /\ req.pc = "validation_middleware"
        /\ IF EndpointMethod(req.endpoint) \in {"POST", "PUT", "PATCH"} /\ req.suspicious
           THEN /\ requests' = Answered(r, 400, "validation_middleware", 0)
                /\ last' = Respond(req.endpoint, req.arg, 400, JSONResponse)
           ELSE /\ requests' = PassedOn(r, "rate_limiting_middleware", 0)
                /\ last' = Respond("validation_middleware", req.arg, 0, {})
        /\ UNCHANGED <<now, payments, users, transactions, sessions, notifications, result>>
        /\ UNCHANGED <<otpVars, evaluation, colleges, subjects, courses, rate_limiter, auxVars>>

rate_limiting_middleware(r) ==
    LET req == requests[r]
        verdict == is_allowed(req.client, LimitType(EndpointPath(req.endpoint)))
    IN  /\ req.pc = "rate_limiting_middleware"
        /\ rate_limiter' = [rate_limiter EXCEPT ![req.client] = verdict.requests]
        /\ IF ~ verdict.allowed
           THEN /\ requests' = [Answered(r, 429, "rate_limiting_middleware", 0)
                                  EXCEPT ![r].checked_at = time_time]
                /\ last' = Respond(req.endpoint, req.arg, 429, JSONResponse)
           ELSE /\ requests' = [PassedOn(r, "get_current_user", 0)
                                  EXCEPT ![r].checked_at = time_time]
                /\ last' = Respond("rate_limiting_middleware", req.arg, 0, {})
        /\ UNCHANGED <<now, payments, users, transactions, sessions, notifications, result>>
        /\ UNCHANGED <<otpVars, evaluation, colleges, subjects, courses, auxVars>>

get_current_user(r) ==
    LET req == requests[r]
        payload == decode_jwt(req.token)
    IN  /\ req.pc = "get_current_user"
        /\ IF payload = <<>>
           THEN /\ requests' = Answered(r, 401, "get_current_user", 0)
                /\ last' = HTTPException(req.endpoint, req.arg, 401)
           ELSE /\ requests' = [PassedOn(r, "role_checker", 0) EXCEPT
                                  ![r].current_user = payload]
                /\ last' = Respond("get_current_user", req.arg, 0, {})
        /\ UNCHANGED <<now, payments, users, transactions, sessions, notifications, result>>
        /\ UNCHANGED <<otpVars, evaluation, colleges, subjects, courses, rate_limiter, auxVars>>

role_checker_anyrole(r) ==
    LET req == requests[r]
    IN  /\ req.pc = "role_checker"
        /\ requests' = PassedOn(r, req.endpoint, 0)
        /\ last' = Respond("role_checker", req.arg, 0, {})
        /\ UNCHANGED <<now, payments, users, transactions, sessions, notifications, result>>
        /\ UNCHANGED <<otpVars, evaluation, colleges, subjects, courses, rate_limiter, auxVars>>

\* require_role(required_roles).role_checker
role_checker(r) ==
    LET req == requests[r]
        user_role == req.current_user[1].role
    IN  /\ req.pc = "role_checker"
        /\ IF user_role \notin required_roles(req.endpoint)
           THEN /\ requests' = Answered(r, 403, "role_checker", 0)
                /\ last' = HTTPException(req.endpoint, req.arg, 403)
           ELSE /\ requests' = PassedOn(r, req.endpoint, 0)
                /\ last' = Respond("role_checker", req.arg, 0, {})
        /\ UNCHANGED <<now, payments, users, transactions, sessions, notifications, result>>
        /\ UNCHANGED <<otpVars, evaluation, colleges, subjects, courses, rate_limiter, auxVars>>

\* DELETE /admin/users/{user_id}: db.users.find_one and the checks on it
delete_user(r) ==
    LET req == requests[r]
        user_id == req.arg
    IN  /\ req.pc = "delete_user"
        /\ IF user_id \notin DOMAIN users
           THEN /\ requests' = Answered(r, 404, "delete_user", 1)
                /\ last' = HTTPException("delete_user", user_id, 404)
           ELSE IF users[user_id].role = "admin"
           THEN /\ requests' = Answered(r, 403, "delete_user", 1)
                /\ last' = HTTPException("delete_user", user_id, 403)
           ELSE /\ requests' = PassedOn(r, "delete_user_delete_one", 1)
                /\ last' = Respond("delete_user_find_one", user_id, 0, {})
        /\ UNCHANGED <<now, payments, users, transactions, sessions, notifications, result>>
        /\ UNCHANGED <<otpVars, evaluation, colleges, subjects, courses, rate_limiter, auxVars>>

\* delete_user: db.users.delete_one and the response
delete_user_delete_one(r) ==
    LET req == requests[r]
        user_id == req.arg
    IN  /\ req.pc = "delete_user_delete_one"
        /\ users' = [u \in DOMAIN users \ {user_id} |-> users[u]]
        /\ requests' = Answered(r, 200, "delete_user", 1)
        /\ last' = Respond("delete_user", user_id, 200, success_response)
        /\ UNCHANGED <<now, payments, transactions, sessions, notifications, result>>
        /\ UNCHANGED <<otpVars, evaluation, colleges, subjects, courses, rate_limiter, auxVars>>

BookedAmount == 60

\* POST /students/book-session once the dependency has returned current_user
book_session(r) ==
    LET req == requests[r]
    IN  /\ req.pc = "book_session"
        /\ BookSession(req.current_user[1].user_id, req.arg, BookedAmount)
        /\ requests' = Answered(r, last'.code, "book_session", 1)
        /\ UNCHANGED <<now, payments, result>>
        /\ UNCHANGED <<otpVars, evaluation, colleges, subjects, courses, rate_limiter, auxVars>>

(***************************************************************************)
(* Specification of the request pipeline: concurrent requests with any     *)
(* token to an admin and a student endpoint                                *)
(***************************************************************************)
\* 99 requests inside the window and one that has left it
BusyClient == [i \in 1..100 |-> IF i = 1 THEN 0 ELSE 60]

InitAuth ==
    /\ now = 1
    /\ payments = <<RechargedPayment>>
    /\ users = IncWallet(InitUsers, "stu1", StartFunds)
    /\ transactions = <<RechargeTransaction>>
    /\ sessions = <<>>
    /\ notifications = <<>>
    /\ result = NoCall
    /\ last = NoExchange
    /\ otps = <<>>
    /\ otpCalls = <<>>
    /\ evaluation = None
    /\ colleges = <<>>
    /\ subjects = <<>>
    /\ courses = <<>>
    /\ requests = <<>>
    /\ rate_limiter \in {[key \in RateClients |-> <<>>],
                         [key \in RateClients |-> BusyClient]}
    /\ time_time = 60
    /\ cache = <<>>
    /\ temp_registrations = <<>>
    /\ content = NoContent

ReceiveRequestStep ==
    \/ \E token \in AuthTokens, user_id \in {"stu1", "adm1", "nobody"} :
          ReceiveRequest("delete_user", token, FALSE, user_id)
    \/ \E token \in AuthTokens, suspicious \in BOOLEAN :
          ReceiveRequest("book_session", token, suspicious, "fac1")

ValidationMiddlewareStep == \E r \in DOMAIN requests : validation_middleware(r)
RateLimitingMiddlewareStep == \E r \in DOMAIN requests : rate_limiting_middleware(r)
GetCurrentUserStep == \E r \in DOMAIN requests : get_current_user(r)
RoleCheckerStep == \E r \in DOMAIN requests : role_checker(r)
DeleteUserStep == \E r \in DOMAIN requests : delete_user(r)
DeleteUserDeleteOneStep == \E r \in DOMAIN requests : delete_user_delete_one(r)
BookSessionRequestStep == \E r \in DOMAIN requests : book_session(r)

NextAuth ==
    \/ ReceiveRequestStep
    \/ ValidationMiddlewareStep
    \/ RateLimitingMiddlewareStep
    \/ GetCurrentUserStep
    \/ RoleCheckerStep
    \/ DeleteUserStep
    \/ DeleteUserDeleteOneStep
    \/ BookSessionRequestStep

SpecAuth == InitAuth /\ [][NextAuth]_vars

(***************************************************************************)
(* Specification of the rate limiter: requests of two clients over time,   *)
(* one of them with 99 requests already answered in the last minute        *)
(***************************************************************************)
MaxRateRequests == 3
MaxRateInFlight == 2
MaxRateTime == 120
RateTick == 30

\* the busy client's 99 admitted requests so far: 60 at second 0, 39 at second 30
EarlierTimes == [i \in 1..99 |-> IF i <= 60 THEN 0 ELSE 30]

InitRate ==
    /\ now = 0
    /\ payments = <<>>
    /\ users = InitUsers
    /\ transactions = <<>>
    /\ sessions = <<>>
    /\ notifications = <<>>
    /\ result = NoCall
    /\ last = NoExchange
    /\ otps = <<>>
    /\ otpCalls = <<>>
    /\ evaluation = None
    /\ colleges = <<>>
    /\ subjects = <<>>
    /\ courses = <<>>
    /\ cache = <<>>
    /\ temp_registrations = <<>>
    /\ content = NoContent
    /\ time_time = 30
    /\ requests = <<>>
    /\ rate_limiter = [key \in RateClients |->
                         IF key = "10.0.0.1" THEN EarlierTimes ELSE <<>>]

ReceiveRateRequestStep ==
    \E client \in RateClients :
        /\ Len(requests) < MaxRateRequests
        /\ Cardinality({r \in DOMAIN requests : requests[r].pc # "done"}) < MaxRateInFlight
        /\ requests' = Append(requests,
              [NewRequest("delete_user",
                          [valid |-> TRUE, user_id |-> "adm1", role |-> "admin"],
                          FALSE, "nobody") EXCEPT !.client = client])
        /\ last' = Respond("receive", client, 0, {})
        /\ UNCHANGED <<now, payments, users, transactions, sessions, notifications, result>>
        /\ UNCHANGED <<otpVars, evaluation, colleges, subjects, courses, rate_limiter, auxVars>>

RateTickStep ==
    /\ time_time + RateTick <= MaxRateTime
    /\ time_time' = time_time + RateTick
    /\ last' = Respond("tick", None, 0, {})
    /\ UNCHANGED <<now, payments, users, transactions, sessions, notifications, result>>
    /\ UNCHANGED <<otpVars, evaluation, colleges, subjects, courses, requests,
                   rate_limiter, cache, temp_registrations, content>>

NextRate ==
    \/ ReceiveRateRequestStep
    \/ RateTickStep
    \/ ValidationMiddlewareStep
    \/ RateLimitingMiddlewareStep
    \/ GetCurrentUserStep
    \/ RoleCheckerStep
    \/ DeleteUserStep

SpecRate == InitRate /\ [][NextRate]_vars

(***************************************************************************)
(* Admin CRUD on colleges, subjects and courses, one database call a step  *)
(***************************************************************************)
MaxAdminRequests == 3
MaxInFlight == 2

\* ObjectIds are never reused: a deleted document keeps its slot, marked
Live(collection) == {i \in DOMAIN collection : ~ collection[i].deleted}

CollegeDoc(name) == [name |-> name, deleted |-> FALSE]
SubjectDoc(name, college_id) ==
    [name |-> name, college_id |-> college_id, deleted |-> FALSE]
CourseDoc(college_id, subject_id, faculty_id) ==
    [college_id |-> college_id, subject_id |-> subject_id,
     faculty_id |-> faculty_id, deleted |-> FALSE]

delete_one(collection, id) ==
    IF id \in DOMAIN collection
    THEN [collection EXCEPT ![id].deleted = TRUE]
    ELSE collection

AdminRequest(op, name, college_id, subject_id, course_id, faculty_id) ==
    [op |-> op, pc |-> op, name |-> name, college_id |-> college_id,
     subject_id |-> subject_id, course_id |-> course_id, faculty_id |-> faculty_id]

FinishedRequest == [pc |-> "done"]

InFlight == {r \in DOMAIN requests : requests[r].pc # "done"}

AdminFrame ==
    /\ UNCHANGED <<now, payments, users, transactions, sessions, notifications, result>>
    /\ UNCHANGED <<otpVars, evaluation, rate_limiter, auxVars>>

\* raise HTTPException(code) / an unhandled exception (500)
Refuse(r, code) ==
    /\ requests' = [requests EXCEPT ![r] = FinishedRequest]
    /\ last' = Respond(requests[r].op, requests[r], code,
                       IF code = 500 THEN handle_generic_exception
                       ELSE handle_http_exception)

\* return success_response(...)
Succeed(r) ==
    /\ requests' = [requests EXCEPT ![r] = FinishedRequest]
    /\ last' = Respond(requests[r].op, requests[r], 200, success_response)

\* the Response model is built from the inserted document, to which the driver
\* has added _id: either it validates (200) or pydantic's ValidationError is
\* answered 400; the document stays inserted
RespondInserted(r) ==
    \/ Succeed(r)
    \/ /\ requests' = [requests EXCEPT ![r] = FinishedRequest]
       /\ last' = Respond(requests[r].op, requests[r], 400, JSONResponse)

Continue(r, pc) ==
    /\ requests' = [requests EXCEPT ![r].pc = pc]
    /\ UNCHANGED last

At(r, pc) == requests[r].pc = pc

\* POST /admin/colleges
create_college(r) ==
    /\ At(r, "create_college")
    /\ IF \E c \in Live(colleges) : colleges[c].name = requests[r].name
       THEN Refuse(r, 400)
       ELSE Continue(r, "create_college_insert_one")
    /\ UNCHANGED <<colleges, subjects, courses>>
    /\ AdminFrame

create_college_insert_one(r) ==
    /\ At(r, "create_college_insert_one")
    /\ colleges' = Append(colleges, CollegeDoc(requests[r].name))
    /\ RespondInserted(r)
    /\ UNCHANGED <<subjects, courses>>
    /\ AdminFrame

\* PUT /admin/colleges/{college_id} with a name
update_college(r) ==
    /\ At(r, "update_college")
    /\ IF requests[r].college_id \notin Live(colleges)
       THEN Refuse(r, 404)
       ELSE Continue(r, "update_college_find_duplicate")
    /\ UNCHANGED <<colleges, subjects, courses>>
    /\ AdminFrame

update_college_find_duplicate(r) ==
    /\ At(r, "update_college_find_duplicate")
    /\ IF \E c \in Live(colleges) :
            colleges[c].name = requests[r].name /\ c # requests[r].college_id
       THEN Refuse(r, 400)
       ELSE Continue(r, "update_college_update_one")
    /\ UNCHANGED <<colleges, subjects, courses>>
    /\ AdminFrame

update_college_update_one(r) ==
    /\ At(r, "update_college_update_one")
    /\ colleges' = IF requests[r].college_id \in Live(colleges)
                   THEN [colleges EXCEPT ![requests[r].college_id].name = requests[r].name]
                   ELSE colleges
    /\ Continue(r, "update_college_find_updated")
    /\ UNCHANGED <<subjects, courses>>
    /\ AdminFrame

update_college_find_updated(r) ==
    /\ At(r, "update_college_find_updated")
    /\ IF requests[r].college_id \notin Live(colleges)
       THEN Refuse(r, 500)      \* updated_college is None
       ELSE Succeed(r)
    /\ UNCHANGED <<colleges, subjects, courses>>
    /\ AdminFrame

\* DELETE /admin/colleges/{college_id}
delete_college(r) ==
    /\ At(r, "delete_college")
    /\ IF requests[r].college_id \notin Live(colleges)
       THEN Refuse(r, 404)
       ELSE Continue(r, "delete_college_count_documents")
    /\ UNCHANGED <<colleges, subjects, courses>>
    /\ AdminFrame

delete_college_count_documents(r) ==
    LET subjects_count ==
            Cardinality({s \in Live(subjects) :
                            subjects[s].college_id = requests[r].college_id})
    IN  /\ At(r, "delete_college_count_documents")
        /\ IF subjects_count > 0
           THEN Refuse(r, 400)
           ELSE Continue(r, "delete_college_delete_one")
        /\ UNCHANGED <<colleges, subjects, courses>>
        /\ AdminFrame

delete_college_delete_one(r) ==
    /\ At(r, "delete_college_delete_one")
    /\ colleges' = delete_one(colleges, requests[r].college_id)
    /\ Succeed(r)
    /\ UNCHANGED <<subjects, courses>>
    /\ AdminFrame

\* POST /admin/subjects
create_subject(r) ==
    /\ At(r, "create_subject")
    /\ IF requests[r].college_id \notin Live(colleges)
       THEN Refuse(r, 404)
       ELSE Continue(r, "create_subject_find_existing")
    /\ UNCHANGED <<colleges, subjects, courses>>
    /\ AdminFrame

create_subject_find_existing(r) ==
    /\ At(r, "create_subject_find_existing")
    /\ IF \E s \in Live(subjects) :
            /\ subjects[s].name = requests[r].name
            /\ subjects[s].college_id = requests[r].college_id
       THEN Refuse(r, 400)
       ELSE Continue(r, "create_subject_insert_one")
    /\ UNCHANGED <<colleges, subjects, courses>>
    /\ AdminFrame

create_subject_insert_one(r) ==
    /\ At(r, "create_subject_insert_one")
    /\ subjects' = Append(subjects, SubjectDoc(requests[r].name, requests[r].college_id))
    /\ RespondInserted(r)
    /\ UNCHANGED <<colleges, courses>>
    /\ AdminFrame

\* PUT /admin/subjects/{subject_id}: SubjectUpdate has no college_id, so
\* reading subject_update.college_id raises AttributeError
update_subject(r) ==
    /\ At(r, "update_subject")
    /\ IF requests[r].subject_id \notin Live(subjects)
       THEN Refuse(r, 404)
       ELSE Refuse(r, 500)
    /\ UNCHANGED <<colleges, subjects, courses>>
    /\ AdminFrame

\* DELETE /admin/subjects/{subject_id}
delete_subject(r) ==
    /\ At(r, "delete_subject")
    /\ IF requests[r].subject_id \notin Live(subjects)
       THEN Refuse(r, 404)
       ELSE Continue(r, "delete_subject_count_documents")
    /\ UNCHANGED <<colleges, subjects, courses>>
    /\ AdminFrame

delete_subject_count_documents(r) ==
    LET courses_using ==
            Cardinality({k \in Live(courses) :
                            courses[k].subject_id = requests[r].subject_id})
    IN  /\ At(r, "delete_subject_count_documents")
        /\ IF courses_using > 0
           THEN Refuse(r, 400)
           ELSE Continue(r, "delete_subject_delete_one")
        /\ UNCHANGED <<colleges, subjects, courses>>
        /\ AdminFrame

delete_subject_delete_one(r) ==
    /\ At(r, "delete_subject_delete_one")
    /\ subjects' = delete_one(subjects, requests[r].subject_id)
    /\ Succeed(r)
    /\ UNCHANGED <<colleges, courses>>
    /\ AdminFrame

\* POST /admin/courses
create_course(r) ==
    /\ At(r, "create_course")
    /\ IF requests[r].college_id \notin Live(colleges)
       THEN Refuse(r, 404)
       ELSE Continue(r, "create_course_find_subject")
    /\ UNCHANGED <<colleges, subjects, courses>>
    /\ AdminFrame

create_course_find_subject(r) ==
    /\ At(r, "create_course_find_subject")
    /\ IF \/ requests[r].subject_id \notin Live(subjects)
          \/ subjects[requests[r].subject_id].college_id # requests[r].college_id
       THEN Refuse(r, 404)
       ELSE Continue(r, "create_course_find_faculty")
    /\ UNCHANGED <<colleges, subjects, courses>>
    /\ AdminFrame

create_course_find_faculty(r) ==
    LET faculty_id == requests[r].faculty_id
    IN  /\ At(r, "create_course_find_faculty")
        /\ IF \/ faculty_id \notin DOMAIN users
              \/ users[faculty_id].role # "faculty"
              \/ ~ users[faculty_id].verified
           THEN Refuse(r, 404)
           ELSE Continue(r, "create_course_insert_one")
        /\ UNCHANGED <<colleges, subjects, courses>>
        /\ AdminFrame

create_course_insert_one(r) ==
    /\ At(r, "create_course_insert_one")
    /\ courses' = Append(courses, CourseDoc(requests[r].college_id,
                                            requests[r].subject_id,
                                            requests[r].faculty_id))
    /\ RespondInserted(r)
    /\ UNCHANGED <<colleges, subjects>>
    /\ AdminFrame

\* PUT /admin/courses/{course_id}: CourseUpdate has no college_id, so
\* reading course_update.college_id raises AttributeError
update_course(r) ==
    /\ At(r, "update_course")
    /\ IF requests[r].course_id \notin Live(courses)
       THEN Refuse(r, 404)
       ELSE Refuse(r, 500)
    /\ UNCHANGED <<colleges, subjects, courses>>
    /\ AdminFrame

\* DELETE /admin/courses/{course_id}
delete_course(r) ==
    /\ At(r, "delete_course")
    /\ IF requests[r].course_id \notin Live(courses)
       THEN Refuse(r, 404)
       ELSE Continue(r, "delete_course_count_documents")
    /\ UNCHANGED <<colleges, subjects, courses>>
    /\ AdminFrame

\* materials, mock_tests and assignments are never written by these requests
\* and stay empty; sessions carry the course they were booked for, if any
delete_course_count_documents(r) ==
    LET sessions_count ==
            Cardinality({i \in DOMAIN sessions :
                            /\ "course_id" \in DOMAIN sessions[i]
                            /\ sessions[i].course_id = requests[r].course_id})
    IN  /\ At(r, "delete_course_count_documents")
        /\ IF sessions_count > 0
           THEN Refuse(r, 400)
           ELSE Continue(r, "delete_course_delete_one")
        /\ UNCHANGED <<colleges, subjects, courses>>
        /\ AdminFrame

delete_course_delete_one(r) ==
    /\ At(r, "delete_course_delete_one")
    /\ courses' = delete_one(courses, requests[r].course_id)
    /\ Succeed(r)
    /\ UNCHANGED <<colleges, subjects>>
    /\ AdminFrame

(***************************************************************************)
(* Specification of the admin CRUD: concurrent admin requests on a store   *)
(* that holds two colleges, a subject and a course                         *)
(***************************************************************************)
AdminRequests ==
    {AdminRequest("create_college", name, 0, 0, 0, None) : name \in {"A", "C"}}
    \cup {AdminRequest("update_college", "B", c, 0, 0, None) : c \in 1..2}
    \cup {AdminRequest("delete_college", None, c, 0, 0, None) : c \in 1..2}
    \cup {AdminRequest("create_subject", "S", c, 0, 0, None) : c \in 1..2}
    \cup {AdminRequest("update_subject", "T", 0, s, 0, None) : s \in 1..2}
    \cup {AdminRequest("delete_subject", None, 0, s, 0, None) : s \in 1..2}
    \cup {AdminRequest("create_course", "K", c, s, 0, "fac1") : c \in 1..2, s \in 1..2}
    \cup {AdminRequest("create_course", "K", 1, 1, 0, "fac2")}
    \cup {AdminRequest("update_course", "L", 0, 0, k, None) : k \in 1..2}
    \cup {AdminRequest("delete_course", None, 0, 0, k, None) : k \in 1..2}

InitAdmin ==
    /\ now = 0
    /\ payments = <<>>
    /\ users = InitUsers
    /\ transactions = <<>>
    /\ sessions = <<>>
    /\ notifications = <<>>
    /\ result = NoCall
    /\ last = NoExchange
    /\ otps = <<>>
    /\ otpCalls = <<>>
    /\ evaluation = None
    /\ colleges = <<CollegeDoc("A"), CollegeDoc("B")>>
    /\ subjects = <<SubjectDoc("S", 1)>>
    /\ courses = <<CourseDoc(1, 1, "fac1")>>
    /\ requests = <<>>
    /\ rate_limiter = [key \in RateClients |-> <<>>]
    /\ InitAux

ReceiveAdminRequestStep ==
    \E request \in AdminRequests :
        /\ Len(requests) < MaxAdminRequests
        /\ Cardinality(InFlight) < MaxInFlight
        /\ requests' = Append(requests, request)
        /\ UNCHANGED <<last, colleges, subjects, courses>>
        /\ AdminFrame

CreateCollegeStep == \E r \in InFlight : create_college(r)
CreateCollegeInsertOneStep == \E r \in InFlight : create_college_insert_one(r)
UpdateCollegeStep == \E r \in InFlight : update_college(r)
UpdateCollegeFindDuplicateStep == \E r \in InFlight : update_college_find_duplicate(r)
UpdateCollegeUpdateOneStep == \E r \in InFlight : update_college_update_one(r)
UpdateCollegeFindUpdatedStep == \E r \in InFlight : update_college_find_updated(r)
DeleteCollegeStep == \E r \in InFlight : delete_college(r)
DeleteCollegeCountDocumentsStep == \E r \in InFlight : delete_college_count_documents(r)
DeleteCollegeDeleteOneStep == \E r \in InFlight : delete_college_delete_one(r)
CreateSubjectStep == \E r \in InFlight : create_subject(r)
CreateSubjectFindExistingStep == \E r \in InFlight : create_subject_find_existing(r)
CreateSubjectInsertOneStep == \E r \in InFlight : create_subject_insert_one(r)
UpdateSubjectStep == \E r \in InFlight : update_subject(r)
DeleteSubjectStep == \E r \in InFlight : delete_subject(r)
DeleteSubjectCountDocumentsStep == \E r \in InFlight : delete_subject_count_documents(r)
DeleteSubjectDeleteOneStep == \E r \in InFlight : delete_subject_delete_one(r)
CreateCourseStep == \E r \in InFlight : create_course(r)
CreateCourseFindSubjectStep == \E r \in InFlight : create_course_find_subject(r)
CreateCourseFindFacultyStep == \E r \in InFlight : create_course_find_faculty(r)
CreateCourseInsertOneStep == \E r \in InFlight : create_course_insert_one(r)
UpdateCourseStep == \E r \in InFlight : update_course(r)
DeleteCourseStep == \E r \in InFlight : delete_course(r)
DeleteCourseCountDocumentsStep == \E r \in InFlight : delete_course_count_documents(r)
DeleteCourseDeleteOneStep == \E r \in InFlight : delete_course_delete_one(r)

NextAdmin ==
    \/ ReceiveAdminRequestStep
    \/ CreateCollegeStep
    \/ CreateCollegeInsertOneStep
    \/ UpdateCollegeStep
    \/ UpdateCollegeFindDuplicateStep
    \/ UpdateCollegeUpdateOneStep
    \/ UpdateCollegeFindUpdatedStep
    \/ DeleteCollegeStep
    \/ DeleteCollegeCountDocumentsStep
    \/ DeleteCollegeDeleteOneStep
    \/ CreateSubjectStep
    \/ CreateSubjectFindExistingStep
    \/ CreateSubjectInsertOneStep
    \/ UpdateSubjectStep
    \/ DeleteSubjectStep
    \/ DeleteSubjectCountDocumentsStep
    \/ DeleteSubjectDeleteOneStep
    \/ CreateCourseStep
    \/ CreateCourseFindSubjectStep
    \/ CreateCourseFindFacultyStep
    \/ CreateCourseInsertOneStep
    \/ UpdateCourseStep
    \/ DeleteCourseStep
    \/ DeleteCourseCountDocumentsStep
    \/ DeleteCourseDeleteOneStep

SpecAdmin == InitAdmin /\ [][NextAdmin]_vars

(***************************************************************************)
(* SimpleCache (middleware/caching.py)                                     *)
(***************************************************************************)
MaxCacheTime == 90
CacheTick == 30

\* cache keys and patterns are strings, here sequences of characters
CacheKeys == {<<"a">>, <<"a", "b">>, <<"b", "c">>}
CachePatterns == {<<>>, <<"a">>, <<"b">>, <<"a", "b">>, <<"c", "a">>}
CacheValues == {"v1", "v2"}
CacheTtls == {0, 30, 60}

\* Python's `pattern in key` on strings
Contains(pattern, key) ==
    \E i \in 0..(Len(key) - Len(pattern)) : SubSeq(key, i + 1, i + Len(pattern)) = pattern

\* the dict without the keys in `gone`
DelKeys(d, gone) == [k \in DOMAIN d \ gone |-> d[k]]

\* the mutation of get that ignores the expiry time
cache_get_noexpiry(key) ==
    IF key \in DOMAIN cache
    THEN [value |-> cache[key].value, cache |-> cache]
    ELSE [value |-> None, cache |-> cache]

\* SimpleCache.get: the value it returns and the dict it leaves behind
cache_get(key) ==
    IF key \in DOMAIN cache
    THEN IF time_time < cache[key].expires
         THEN [value |-> cache[key].value, cache |-> cache]
         ELSE [value |-> None, cache |-> DelKeys(cache, {key})]
    ELSE [value |-> None, cache |-> cache]

\* SimpleCache.set; stored_at and ttl are history fields the code does not keep
cache_set(key, value, ttl) ==
    [k \in DOMAIN cache \cup {key} |->
        IF k = key
        THEN [value |-> value, expires |-> time_time + ttl,
              stored_at |-> time_time, ttl |-> ttl]
        ELSE cache[k]]

\* SimpleCache.delete
cache_delete(key) == IF key \in DOMAIN cache THEN DelKeys(cache, {key}) ELSE cache

\* SimpleCache.clear
cache_clear == DelKeys(cache, DOMAIN cache)

\* invalidate_cache(pattern)
invalidate_cache(pattern) ==
    LET keys_to_delete == {key \in DOMAIN cache : Contains(pattern, key)}
    IN  DelKeys(cache, keys_to_delete)

\* clear_expired_cache()
clear_expired_cache ==
    LET current_time == time_time
        expired_keys == {key \in DOMAIN cache : current_time > cache[key].expires}
    IN  DelKeys(cache, expired_keys)

CacheFrame ==
    /\ UNCHANGED <<now, payments, users, transactions, sessions, notifications>>
    /\ UNCHANGED <<otpVars, evaluation, colleges, subjects, courses, requests,
                   rate_limiter, temp_registrations, content>>

InitCache ==
    /\ now = 0
    /\ payments = <<>>
    /\ users = InitUsers
    /\ transactions = <<>>
    /\ sessions = <<>>
    /\ notifications = <<>>
    /\ result = [value |-> None]
    /\ last = NoExchange
    /\ InitOther

CacheGetStep ==
    \E key \in CacheKeys :
        /\ cache' = cache_get(key).cache
        /\ result' = [value |-> cache_get(key).value]
        /\ last' = Respond("cache.get", key, 0, {})
        /\ UNCHANGED time_time
        /\ CacheFrame

CacheSetStep ==
    \E key \in CacheKeys, value \in CacheValues, ttl \in CacheTtls :
        /\ cache' = cache_set(key, value, ttl)
        /\ last' = Respond("cache.set", key, 0, {})
        /\ UNCHANGED <<time_time, result>>
        /\ CacheFrame

CacheDeleteStep ==
    \E key \in CacheKeys :
        /\ cache' = cache_delete(key)
        /\ last' = Respond("cache.delete", key, 0, {})
        /\ UNCHANGED <<time_time, result>>
        /\ CacheFrame

CacheClearStep ==
    /\ cache' = cache_clear
    /\ last' = Respond("cache.clear", None, 0, {})
    /\ UNCHANGED <<time_time, result>>
    /\ CacheFrame

InvalidateCacheStep ==
    \E pattern \in CachePatterns :
        /\ cache' = invalidate_cache(pattern)
        /\ last' = Respond("invalidate_cache", pattern, 0, {})
        /\ UNCHANGED <<time_time, result>>
        /\ CacheFrame

ClearExpiredCacheStep ==
    /\ cache' = clear_expired_cache
    /\ last' = Respond("clear_expired_cache", None, 0, {})
    /\ UNCHANGED <<time_time, result>>
    /\ CacheFrame

CacheTickStep ==
    /\ time_time + CacheTick <= MaxCacheTime
    /\ time_time' = time_time + CacheTick
    /\ last' = Respond("tick", None, 0, {})
    /\ UNCHANGED <<cache, result>>
    /\ CacheFrame

NextCache ==
    \/ CacheGetStep
    \/ CacheSetStep
    \/ CacheDeleteStep
    \/ CacheClearStep
    \/ InvalidateCacheStep
    \/ ClearExpiredCacheStep
    \/ CacheTickStep

SpecCache == InitCache /\ [][NextCache]_vars

(***************************************************************************)
(* book_session, one database call per step, for concurrent requests       *)
(***************************************************************************)
MaxBookings == 2
BookingAmounts == {60, 150}
BookingFaculty == {"fac1", "fac2"}

Booking(student_id, faculty_id, amount) ==
    [op |-> "book_session", pc |-> "find_faculty", student_id |-> student_id,
     faculty_id |-> faculty_id, amount |-> amount, session_id |-> 0, code |-> 0]

BookingFrame ==
    /\ UNCHANGED <<now, payments, result>>
    /\ UNCHANGED <<otpVars, evaluation, colleges, subjects, courses, rate_limiter, auxVars>>

BookingArgs(req) ==
    [student_id |-> req.student_id, faculty_id |-> req.faculty_id, amount |-> req.amount]

ReceiveBooking(student_id, faculty_id, amount) ==
    /\ Len(requests) < MaxBookings
    /\ requests' = Append(requests, Booking(student_id, faculty_id, amount))
    /\ last' = Respond("receive", faculty_id, 0, {})
    /\ UNCHANGED <<users, sessions, transactions, notifications>>
    /\ BookingFrame

\* book_session: db.users.find_one for the faculty
book_session_find_faculty(r) ==
    LET req == requests[r]
        faculty_found == /\ req.faculty_id \in DOMAIN users
                         /\ users[req.faculty_id].role = "faculty"
                         /\ users[req.faculty_id].verified
    IN  /\ req.pc = "find_faculty"
        /\ IF ~ faculty_found
           THEN /\ requests' = [requests EXCEPT ![r].pc = "done", ![r].code = 404]
                /\ last' = HTTPException("book_session", BookingArgs(req), 404)
           ELSE /\ requests' = [requests EXCEPT ![r].pc = "find_student"]
                /\ last' = Respond("book_session_find_faculty", BookingArgs(req), 0, {})
        /\ UNCHANGED <<users, sessions, transactions, notifications>>
        /\ BookingFrame

\* book_session: db.users.find_one for the student and the balance check
book_session_find_student(r) ==
    LET req == requests[r]
    IN  /\ req.pc = "find_student"
        /\ IF users[req.student_id].wallet_balance < req.amount
           THEN /\ requests' = [requests EXCEPT ![r].pc = "done", ![r].code = 400]
                /\ last' = HTTPException("book_session", BookingArgs(req), 400)
           ELSE /\ requests' = [requests EXCEPT ![r].pc = "insert_session"]
                /\ last' = Respond("book_session_find_student", BookingArgs(req), 0, {})
        /\ UNCHANGED <<users, sessions, transactions, notifications>>
        /\ BookingFrame

\* book_session: db.sessions.insert_one
book_session_insert_session(r) ==
    LET req == requests[r]
        session_id == Len(sessions) + 1
    IN  /\ req.pc = "insert_session"
        /\ sessions' = Append(sessions,
               [session_id |-> session_id, student_id |-> req.student_id,
                faculty_id |-> req.faculty_id, amount |-> req.amount,
                status |-> "pending", payment_status |-> "pending"])
        /\ requests' = [requests EXCEPT ![r].pc = "update_wallet",
                                        ![r].session_id = session_id]
        /\ last' = Respond("book_session_insert_session", BookingArgs(req), 0, {})
        /\ UNCHANGED <<users, transactions, notifications>>
        /\ BookingFrame

\* book_session: db.users.update_one with $inc of -amount
book_session_update_wallet(r) ==
    LET req == requests[r]
    IN  /\ req.pc = "update_wallet"
        /\ users' = IncWallet(users, req.student_id, 0 - req.amount)
        /\ requests' = [requests EXCEPT ![r].pc = "insert_transaction"]
        /\ last' = Respond("book_session_update_wallet", BookingArgs(req), 0, {})
        /\ UNCHANGED <<sessions, transactions, notifications>>
        /\ BookingFrame

\* book_session: db.transactions.insert_one
book_session_insert_transaction(r) ==
    LET req == requests[r]
    IN  /\ req.pc = "insert_transaction"
        /\ transactions' = Append(transactions,
               [user_id |-> req.student_id, amount |-> req.amount, type |-> "debit",
                purpose |-> "Session booking", reference_id |-> SessionRef(req.session_id)])
        /\ requests' = [requests EXCEPT ![r].pc = "insert_notification"]
        /\ last' = Respond("book_session_insert_transaction", BookingArgs(req), 0, {})
        /\ UNCHANGED <<users, sessions, notifications>>
        /\ BookingFrame

\* book_session: db.notifications.insert_one and the response
book_session_insert_notification(r) ==
    LET req == requests[r]
    IN  /\ req.pc = "insert_notification"
        /\ notifications' = Append(notifications, [user_id |-> req.faculty_id, type |-> "info"])
        /\ requests' = [requests EXCEPT ![r].pc = "done", ![r].code = 200]
        /\ last' = Respond("book_session", BookingArgs(req), 200, success_response)
        /\ UNCHANGED <<users, sessions, transactions>>
        /\ BookingFrame

\* the store after stu1 recharged the wallet, no request in flight
InitBooking == InitSession

ReceiveBookingStep ==
    \E faculty_id \in BookingFaculty, amount \in BookingAmounts :
        ReceiveBooking("stu1", faculty_id, amount)

BookSessionFindFacultyStep == \E r \in DOMAIN requests : book_session_find_faculty(r)
BookSessionFindStudentStep == \E r \in DOMAIN requests : book_session_find_student(r)
BookSessionInsertSessionStep == \E r \in DOMAIN requests : book_session_insert_session(r)
BookSessionUpdateWalletStep == \E r \in DOMAIN requests : book_session_update_wallet(r)
BookSessionInsertTransactionStep == \E r \in DOMAIN requests : book_session_insert_transaction(r)
BookSessionInsertNotificationStep == \E r \in DOMAIN requests : book_session_insert_notification(r)

NextBooking ==
    \/ ReceiveBookingStep
    \/ BookSessionFindFacultyStep
    \/ BookSessionFindStudentStep
    \/ BookSessionInsertSessionStep
    \/ BookSessionUpdateWalletStep
    \/ BookSessionInsertTransactionStep
    \/ BookSessionInsertNotificationStep

SpecBooking == InitBooking /\ [][NextBooking]_vars

(***************************************************************************)
(* Accounts: register, resend-otp, forgot-password and reset-password      *)
(***************************************************************************)
AccountEmails == {"a@example.com", "b@example.com", "not-an-email"}
AccountRoles == {"student", "faculty", "admin"}
NewPasswords == {"Newpass1", "Newpass2"}

\* validate_email: the address matches the e-mail pattern
validate_email(email) == email # "not-an-email"

\* hash_password: a bcrypt hash of the password, never the password itself
hash_password(password) == [bcrypt |-> password]

\* the user documents with the fields the account routes read and write;
\* stu1 registered as a@example.com
AccountUsers ==
    [u \in DOMAIN InitUsers |->
        [role |-> InitUsers[u].role, verified |-> InitUsers[u].verified,
         wallet_balance |-> InitUsers[u].wallet_balance,
         email |-> IF u = "stu1" THEN "a@example.com" ELSE u,
         hashed_password |-> hash_password("Oldpass1")]]

\* db.users.find_one({"email": email}): the matching user ids
UsersByEmail(email) == {u \in DOMAIN users : users[u].email = email}

\* handle_app_exception: body of a ValidationException, NotFoundException or
\* ConflictException
handle_app_exception == {"success", "message", "error_code", "details"}

\* OTPService.verify_otp run to its end: the verdict and the otps it leaves
verify_otp(email, otp_code, purpose) ==
    LET otp == FindOtp(email, otp_code, purpose)
    IN  [valid |-> otp # 0,
         otps |-> IF otp # 0 THEN [otps EXCEPT ![otp].is_used = TRUE] ELSE otps]

AccountFrame ==
    /\ UNCHANGED <<payments, transactions, sessions, notifications, result>>
    /\ UNCHANGED <<otpCalls, evaluation, colleges, subjects, courses, requests,
                   rate_limiter, time_time, cache, content>>

\* POST /auth/register.  get_timestamp() returns a datetime, so the
\* expression get_timestamp() + 600 that builds the temporary registration
\* raises TypeError before insert_one; the handler turns it into a 500.
register(email, role) ==
    LET args == [email |-> email, role |-> role]
        existing_temp == {t \in DOMAIN temp_registrations :
                             temp_registrations[t].email = email}
        expired_temp == {t \in existing_temp : temp_registrations[t].expires_at < now}
    IN  /\ IF ~ validate_email(email) \/ role \notin {"student", "faculty"}
           THEN /\ last' = Respond("register", args, 400, handle_app_exception)
                /\ UNCHANGED temp_registrations
           ELSE IF UsersByEmail(email) # {}
           THEN /\ last' = Respond("register", args, 409, handle_app_exception)
                /\ UNCHANGED temp_registrations
           ELSE IF existing_temp # {} /\ expired_temp = {}
           THEN /\ last' = Respond("register", args, 409, handle_app_exception)
                /\ UNCHANGED temp_registrations
           ELSE /\ temp_registrations' =
                      SelectSeq(temp_registrations, LAMBDA t : t.email # email)
                /\ last' = HTTPException("register", args, 500)
        /\ UNCHANGED <<now, users, otps>>
        /\ AccountFrame

\* db.otps.update_many of resend_otp: the unused OTPs of the email and purpose
UnusedOtps(email, purpose) ==
    {i \in DOMAIN otps :
        otps[i].email = email /\ otps[i].purpose = purpose /\ otps[i].is_used = FALSE}

\* the mutation of resend_otp that leaves the earlier OTPs as they are
resend_otp_noinvalidate(email, purpose, otp_code) ==
    LET args == [email |-> email, purpose |-> purpose, modified_count |-> 0]
    IN  /\ IF purpose = "login" /\ UsersByEmail(email) = {}
           THEN /\ last' = HTTPException("resend_otp", args, 404)
                /\ UNCHANGED otps
           ELSE /\ otps' = Append(otps,
                       [email |-> email, otp_code |-> otp_code, purpose |-> purpose,
                        expires_at |-> now + otp_expiry_minutes, is_used |-> FALSE,
                        created_at |-> now])
                /\ last' = Respond("resend_otp", args, 200, success_response)
        /\ UNCHANGED <<now, users, temp_registrations>>
        /\ AccountFrame

\* POST /auth/resend-otp with OTPService.resend_otp and create_otp;
\* modified_count is what update_many reports
resend_otp(email, purpose, otp_code) ==
    LET modified == UnusedOtps(email, purpose)
        args == [email |-> email, purpose |-> purpose,
                 modified_count |-> IF purpose = "login" /\ UsersByEmail(email) = {}
                                    THEN 0 ELSE Cardinality(modified)]
        invalidated == [i \in DOMAIN otps |->
                           IF i \in modified
                           THEN [otps[i] EXCEPT !.is_used = TRUE]
                           ELSE otps[i]]
    IN  /\ IF purpose = "login" /\ UsersByEmail(email) = {}
           THEN /\ last' = HTTPException("resend_otp", args, 404)
                /\ UNCHANGED otps
           ELSE /\ otps' = Append(invalidated,
                       [email |-> email, otp_code |-> otp_code, purpose |-> purpose,
                        expires_at |-> now + otp_expiry_minutes, is_used |-> FALSE,
                        created_at |-> now])
                /\ last' = Respond("resend_otp", args, 200, success_response)
        /\ UNCHANGED <<now, users, temp_registrations>>
        /\ AccountFrame

\* POST /auth/forgot-password.  For an existing user get_timestamp() - 3600
\* raises TypeError before create_otp; the handler answers every failure, like
\* an unknown e-mail, with the same success message.
forgot_password(email) ==
    /\ last' = IF validate_email(email)
               THEN Respond("forgot_password", email, 200, enhanced_success_response("email"))
               ELSE Respond("forgot_password", email, 400, handle_app_exception)
    /\ UNCHANGED <<now, users, otps, temp_registrations>>
    /\ AccountFrame

\* POST /auth/reset-password.  OTPService has no method mark_otp_used: the
\* call after update_one raises AttributeError, which the handler turns into
\* a 500.
reset_password(email, otp, new_password) ==
    LET args == [email |-> email, otp |-> otp]
        verdict == verify_otp(email, otp, "password_reset")
    IN  /\ IF ~ validate_email(email)
           THEN /\ last' = Respond("reset_password", args, 400, handle_app_exception)
                /\ UNCHANGED <<users, otps>>
           ELSE IF ~ verdict.valid
           THEN /\ last' = Respond("reset_password", args, 400, handle_app_exception)
                /\ UNCHANGED <<users, otps>>
           ELSE IF UsersByEmail(email) = {}
           THEN /\ otps' = verdict.otps
                /\ last' = Respond("reset_password", args, 404, handle_app_exception)
                /\ UNCHANGED users
           ELSE /\ otps' = verdict.otps
                /\ users' = [u \in DOMAIN users |->
                                IF u = CHOOSE v \in UsersByEmail(email) : TRUE
                                THEN [users[u] EXCEPT
                                         !.hashed_password = hash_password(new_password)]
                                ELSE users[u]]
                /\ last' = HTTPException("reset_password", args, 500)
        /\ UNCHANGED <<now, temp_registrations>>
        /\ AccountFrame

InitAccount ==
    /\ now = 0
    /\ payments = <<>>
    /\ users = AccountUsers
    /\ transactions = <<>>
    /\ sessions = <<>>
    /\ notifications = <<>>
    /\ result = NoCall
    /\ last = NoExchange
    /\ InitOther

RegisterStep ==
    \E email \in AccountEmails, role \in AccountRoles : register(email, role)

ResendOtpStep ==
    \E email \in AccountEmails \ {"not-an-email"},
       purpose \in OtpPurposes \cup {"login"}, otp_code \in OtpCodes :
        /\ Len(otps) < MaxOtps
        /\ resend_otp(email, purpose, otp_code)

ForgotPasswordStep == \E email \in AccountEmails : forgot_password(email)

ResetPasswordStep ==
    \E email \in AccountEmails, otp \in OtpCodes, new_password \in NewPasswords :
        reset_password(email, otp, new_password)

AccountTickStep ==
    /\ now + TickMinutes <= MaxTime
    /\ now' = now + TickMinutes
    /\ last' = Respond("tick", None, 0, {})
    /\ UNCHANGED <<users, otps, temp_registrations>>
    /\ AccountFrame

NextAccount ==
    \/ RegisterStep
    \/ ResendOtpStep
    \/ ForgotPasswordStep
    \/ ResetPasswordStep
    \/ AccountTickStep

SpecAccount == InitAccount /\ [][NextAccount]_vars

(***************************************************************************)
(* verify-otp: completing a registration, login and password reset         *)
(***************************************************************************)
MaxOtpAttempts == 5
VerifyPurposes == {"registration", "login", "password_reset", "signup"}

\* a temp_registrations document as register builds it: expires 10 minutes
\* after it was stored, no failed attempt yet
PendingRegistration(email, role) ==
    [email |-> email,
     data |-> [email |-> email, role |-> role, password |-> "Secret12"],
     expires_at |-> 10, attempts |-> 0]

\* db.temp_registrations.find_one({"email": email}): 0 when there is none
FindTemp(email) ==
    LET matching == {t \in DOMAIN temp_registrations : temp_registrations[t].email = email}
    IN  IF matching = {} THEN 0
        ELSE CHOOSE t \in matching : \A u \in matching : t <= u

\* $inc / $set of attempts on the pending registration, when there is one
SetAttempts(temp_reg, attempts) ==
    IF temp_reg = 0 THEN temp_registrations
    ELSE [temp_registrations EXCEPT ![temp_reg].attempts = attempts]

\* db.temp_registrations.delete_one({"email": email})
DeleteTemp(temps, temp_reg) ==
    [t \in 1..(Len(temps) - 1) |-> IF t < temp_reg THEN temps[t] ELSE temps[t + 1]]

\* the user document verify_otp inserts; students are verified at once
user_doc(user_data) ==
    [role |-> user_data.role,
     verified |-> (user_data.role = "student"),
     wallet_balance |-> 0,
     email |-> user_data.email,
     hashed_password |-> hash_password(user_data.password)]

VerifyFailure(args, code, message) ==
    /\ last' = Respond("verify_otp", args, code, handle_app_exception)
    /\ result' = [success |-> FALSE, message |-> message]

\* POST /auth/verify-otp.  The user id the driver draws for a new user is
\* modelled by the e-mail address, which is unique among users.
VerifyOtp(email, otp_code, purpose) ==
    LET args == [email |-> email, otp_code |-> otp_code, purpose |-> purpose]
        temp_reg == FindTemp(email)
        verdict == verify_otp(email, otp_code, purpose)
        reset == SetAttempts(temp_reg, 0)
    IN  IF ~ validate_email(email)
        THEN /\ VerifyFailure(args, 400, "Invalid email format")
             /\ UNCHANGED <<users, otps, temp_registrations>>
        ELSE IF purpose \notin {"registration", "login", "password_reset"}
        THEN /\ VerifyFailure(args, 400, "Invalid OTP purpose")
             /\ UNCHANGED <<users, otps, temp_registrations>>
        ELSE IF temp_reg # 0 /\ temp_registrations[temp_reg].attempts >= MaxOtpAttempts
        THEN /\ VerifyFailure(args, 400, "Too many failed attempts. Please request a new OTP.")
             /\ UNCHANGED <<users, otps, temp_registrations>>
        ELSE IF ~ verdict.valid
        THEN /\ VerifyFailure(args, 400, "Invalid or expired OTP")
             /\ temp_registrations' =
                   IF temp_reg = 0 THEN temp_registrations
                   ELSE SetAttempts(temp_reg, temp_registrations[temp_reg].attempts + 1)
             /\ UNCHANGED <<users, otps>>
        ELSE /\ otps' = verdict.otps
             /\ IF purpose = "registration"
                THEN IF temp_reg = 0 \/ ~ (reset[temp_reg].expires_at > now)
                     THEN /\ VerifyFailure(args, 400,
                                 "Registration session expired. Please register again.")
                          /\ temp_registrations' = reset
                          /\ UNCHANGED users
                     ELSE IF UsersByEmail(email) # {}
                     THEN /\ VerifyFailure(args, 409, "Email already registered")
                          /\ temp_registrations' = DeleteTemp(reset, temp_reg)
                          /\ UNCHANGED users
                     ELSE /\ users' = [u \in DOMAIN users \cup {email} |->
                                          IF u = email THEN user_doc(reset[temp_reg].data)
                                          ELSE users[u]]
                          /\ temp_registrations' = DeleteTemp(reset, temp_reg)
                          /\ last' = Respond("verify_otp", args, 200,
                                             enhanced_success_response("data"))
                          /\ result' = [success |-> TRUE,
                                        message |-> "Registration completed successfully"]
                ELSE IF UsersByEmail(email) = {}
                THEN /\ VerifyFailure(args, 404, "user not found")
                     /\ temp_registrations' = reset
                     /\ UNCHANGED users
                ELSE IF purpose = "login"
                THEN /\ last' = Respond("verify_otp", args, 200,
                                        enhanced_success_response("data"))
                     /\ result' = [success |-> TRUE, message |-> "Login successful"]
                     /\ temp_registrations' = reset
                     /\ UNCHANGED users
                ELSE \* password_reset: otp_service.mark_otp_used does not exist
                     /\ last' = HTTPException("verify_otp", args, 500)
                     /\ result' = [success |-> FALSE,
                                   message |-> "OTP verification failed. Please try again."]
                     /\ temp_registrations' = reset
                     /\ UNCHANGED users

VerifyFrame ==
    /\ UNCHANGED <<payments, transactions, sessions, notifications>>
    /\ UNCHANGED <<otpCalls, evaluation, colleges, subjects, courses, requests,
                   rate_limiter, time_time, cache, content>>

\* the database holds a pending registration of b@example.com with the
\* registration OTP issued for it; a@example.com is a user
InitVerify ==
    /\ now = 0
    /\ payments = <<>>
    /\ users = AccountUsers
    /\ transactions = <<>>
    /\ sessions = <<>>
    /\ notifications = <<>>
    /\ result = NoCall
    /\ last = NoExchange
    /\ otps = <<[email |-> "b@example.com", otp_code |-> "111111",
                 purpose |-> "registration", expires_at |-> otp_expiry_minutes,
                 is_used |-> FALSE, created_at |-> 0]>>
    /\ otpCalls = <<>>
    /\ evaluation = None
    /\ colleges = <<>>
    /\ subjects = <<>>
    /\ courses = <<>>
    /\ requests = <<>>
    /\ rate_limiter = [key \in RateClients |-> <<>>]
    /\ time_time = 0
    /\ cache = <<>>
    /\ temp_registrations = <<PendingRegistration("b@example.com", "faculty")>>
    /\ content = NoContent

VerifyOtpStep ==
    \E email \in AccountEmails, otp_code \in OtpCodes, purpose \in VerifyPurposes :
        /\ VerifyOtp(email, otp_code, purpose)
        /\ UNCHANGED now
        /\ VerifyFrame

VerifyResendOtpStep ==
    \E email \in {"b@example.com"}, purpose \in {"registration"}, otp_code \in OtpCodes :
        /\ Len(otps) < MaxOtps
        /\ resend_otp(email, purpose, otp_code)

NextVerify ==
    \/ VerifyOtpStep
    \/ VerifyResendOtpStep

SpecVerify == InitVerify /\ [][NextVerify]_vars

(***************************************************************************)
(* Faculty verification and the faculty routes that require it             *)
(***************************************************************************)
MaxContent == 1
MaxFacultyNotifications == 2
FacultyEmails == {"b@example.com", "c@example.com"}
FacultyActors == {"fac2", "b@example.com"}
ProfileUpdates == {<<>>, [institution |-> "MIT"]}
AssignedTo == {<<>>, <<"stu1">>}
QueryIds == {1, 2}

\* require_role(required_roles) for the user the token names
require_role(roles, current_user) == users[current_user].role \in roles

FacultyOps ==
    {"upload_material", "create_assignment", "create_test",
     "generate_test_questions", "answer_query"}

ContentSize == Len(content.materials) + Len(content.assignments) + Len(content.mock_tests)

RefuseFaculty(op, args, code, detail) ==
    /\ last' = HTTPException(op, args, code)
    /\ result' = [success |-> FALSE, message |-> detail]
    /\ UNCHANGED <<users, content, notifications, cache>>

\* the two checks every handler below starts with; `act` is the rest of it
FacultyOnly(op, args, current_user, act) ==
    IF ~ require_role({"faculty"}, current_user)
    THEN RefuseFaculty(op, args, 403, "Access denied. Required roles: faculty")
    ELSE IF ~ users[current_user].verified
    THEN RefuseFaculty(op, args, 403, "Faculty account not verified")
    ELSE act

FacultySuccess(op, args, message) ==
    /\ last' = Respond(op, args, 200, success_response)
    /\ result' = [success |-> TRUE, message |-> message]

\* the mutation of upload_material that does not look at `verified`
upload_material_unchecked(current_user) ==
    LET args == [current_user |-> current_user]
    IN  IF ~ require_role({"faculty"}, current_user)
        THEN RefuseFaculty("upload_material", args, 403, "Access denied. Required roles: faculty")
        ELSE /\ content' = [content EXCEPT !.materials = Append(@, [uploaded_by |-> current_user])]
             /\ FacultySuccess("upload_material", args, "Material uploaded successfully")
             /\ UNCHANGED <<users, notifications, cache>>

\* POST /faculties/upload-material
upload_material(current_user) ==
    LET args == [current_user |-> current_user]
    IN  FacultyOnly("upload_material", args, current_user,
            /\ content' = [content EXCEPT !.materials = Append(@, [uploaded_by |-> current_user])]
            /\ FacultySuccess("upload_material", args, "Material uploaded successfully")
            /\ UNCHANGED <<users, notifications, cache>>)

RECURSIVE AssignmentNotifications(_, _)
AssignmentNotifications(seq, assigned_to) ==
    IF assigned_to = <<>> THEN seq
    ELSE AssignmentNotifications(Append(seq, [user_id |-> Head(assigned_to), type |-> "info"]),
                                 Tail(assigned_to))

\* POST /faculties/create-assignment
create_assignment(current_user, assigned_to) ==
    LET args == [current_user |-> current_user, assigned_to |-> assigned_to]
    IN  FacultyOnly("create_assignment", args, current_user,
            /\ content' = [content EXCEPT !.assignments =
                              Append(@, [created_by |-> current_user, assigned_to |-> assigned_to])]
            /\ notifications' = AssignmentNotifications(notifications, assigned_to)
            /\ FacultySuccess("create_assignment", args, "Assignment created successfully")
            /\ UNCHANGED <<users, cache>>)

\* POST /faculties/create-test
create_test(current_user) ==
    LET args == [current_user |-> current_user]
    IN  FacultyOnly("create_test", args, current_user,
            /\ content' = [content EXCEPT !.mock_tests = Append(@, [created_by |-> current_user])]
            /\ FacultySuccess("create_test", args, "Test created successfully")
            /\ UNCHANGED <<users, notifications, cache>>)

\* POST /faculties/generate-test-questions: the questions come from the AI
\* service and are only returned
generate_test_questions(current_user) ==
    LET args == [current_user |-> current_user]
    IN  FacultyOnly("generate_test_questions", args, current_user,
            /\ FacultySuccess("generate_test_questions", args, "Questions generated successfully")
            /\ UNCHANGED <<users, content, notifications, cache>>)

\* POST /faculties/answer-query/{query_id}
answer_query(current_user, query_id) ==
    LET args == [current_user |-> current_user, query_id |-> query_id]
    IN  FacultyOnly("answer_query", args, current_user,
            IF query_id \notin DOMAIN content.queries
            THEN RefuseFaculty("answer_query", args, 404, "Query not found")
            ELSE /\ content' = [content EXCEPT !.queries[query_id].answer_text = "answer",
                                               !.queries[query_id].answered_by = current_user]
                 /\ notifications' = Append(notifications,
                        [user_id |-> content.queries[query_id].asked_by, type |-> "success"])
                 /\ FacultySuccess("answer_query", args, "Query answered successfully")
                 /\ UNCHANGED <<users, cache>>)

\* db.users.update_one({"_id": ...}, {"$set": update_data})
SetFields(user, update_data) ==
    [f \in DOMAIN user \cup DOMAIN update_data |->
        IF f \in DOMAIN update_data THEN update_data[f] ELSE user[f]]

\* PATCH /faculties/update-profile: UserUpdate carries name, institution and
\* college_id only
update_faculty_profile(current_user, update_data) ==
    LET args == [current_user |-> current_user, update_data |-> update_data]
    IN  IF ~ require_role({"faculty"}, current_user)
        THEN RefuseFaculty("update_faculty_profile", args, 403,
                           "Access denied. Required roles: faculty")
        ELSE IF DOMAIN update_data = {}
        THEN RefuseFaculty("update_faculty_profile", args, 400, "No fields to update")
        ELSE /\ users' = [users EXCEPT ![current_user] = SetFields(@, update_data)]
             /\ FacultySuccess("update_faculty_profile", args, "Profile updated successfully")
             /\ UNCHANGED <<content, notifications, cache>>

\* POST /admin/verify-faculty/{user_id}
verify_faculty(user_id, current_user) ==
    LET args == [user_id |-> user_id, current_user |-> current_user]
    IN  IF ~ require_role({"admin"}, current_user)
        THEN RefuseFaculty("verify_faculty", args, 403, "Access denied. Required roles: admin")
        ELSE IF user_id \notin DOMAIN users \/ users[user_id].role # "faculty"
        THEN /\ last' = Respond("verify_faculty", args, 404, handle_app_exception)
             /\ result' = [success |-> FALSE, message |-> "faculty not found"]
             /\ UNCHANGED <<users, content, notifications, cache>>
        ELSE IF users[user_id].verified
        THEN /\ last' = Respond("verify_faculty", args, 400, handle_app_exception)
             /\ result' = [success |-> FALSE, message |-> "Faculty is already verified"]
             /\ UNCHANGED <<users, content, notifications, cache>>
        ELSE /\ users' = [users EXCEPT ![user_id] =
                             SetFields(@, [verified |-> TRUE, verified_by |-> current_user])]
             /\ notifications' = Append(notifications, [user_id |-> user_id, type |-> "success"])
             /\ cache' = DelKeys(cache, {"pending_faculties", "faculty_stats"} \cap DOMAIN cache)
             /\ last' = Respond("verify_faculty", args, 200, enhanced_success_response("data"))
             /\ result' = [success |-> TRUE, message |-> "Faculty verified successfully"]
             /\ UNCHANGED content

\* GET /auth/verify/{user_id}: update_one modifies nothing when the user is
\* missing or already verified
verify_user(user_id, current_user) ==
    LET args == [user_id |-> user_id, current_user |-> current_user]
    IN  IF users[current_user].role # "admin"
        THEN RefuseFaculty("verify_user", args, 403, "Only admins can verify users")
        ELSE IF user_id \notin DOMAIN users \/ users[user_id].verified
        THEN RefuseFaculty("verify_user", args, 404, "User not found")
        ELSE /\ users' = [users EXCEPT ![user_id].verified = TRUE]
             /\ FacultySuccess("verify_user", args, "User verified successfully")
             /\ UNCHANGED <<content, notifications, cache>>

FacultyFrame ==
    /\ UNCHANGED <<now, payments, transactions, sessions>>
    /\ UNCHANGED <<otps, otpCalls, evaluation, colleges, subjects, courses, requests,
                   rate_limiter, time_time, temp_registrations>>

\* the database holds the pending registrations of a faculty member and of a
\* student with their OTPs, and one unanswered query of stu1
InitFaculty ==
    /\ now = 0
    /\ payments = <<>>
    /\ users = AccountUsers
    /\ transactions = <<>>
    /\ sessions = <<>>
    /\ notifications = <<>>
    /\ result = NoCall
    /\ last = NoExchange
    /\ otps = <<[email |-> "b@example.com", otp_code |-> "111111",
                 purpose |-> "registration", expires_at |-> otp_expiry_minutes,
                 is_used |-> FALSE, created_at |-> 0],
                [email |-> "c@example.com", otp_code |-> "111111",
                 purpose |-> "registration", expires_at |-> otp_expiry_minutes,
                 is_used |-> FALSE, created_at |-> 0]>>
    /\ otpCalls = <<>>
    /\ evaluation = None
    /\ colleges = <<>>
    /\ subjects = <<>>
    /\ courses = <<>>
    /\ requests = <<>>
    /\ rate_limiter = [key \in RateClients |-> <<>>]
    /\ time_time = 0
    /\ cache = <<>>
    /\ temp_registrations = <<PendingRegistration("b@example.com", "faculty"),
                              PendingRegistration("c@example.com", "student")>>
    /\ content = [NoContent EXCEPT !.queries =
                     <<[asked_by |-> "stu1", answer_text |-> None, answered_by |-> None]>>]

FacultyBounded ==
    /\ ContentSize' <= MaxContent
    /\ Len(notifications') <= MaxFacultyNotifications

FacultyVerifyOtpStep ==
    \E email \in FacultyEmails :
        /\ VerifyOtp(email, "111111", "registration")
        /\ UNCHANGED now
        /\ VerifyFrame

UploadMaterialStep ==
    \E current_user \in FacultyActors \cap DOMAIN users :
        /\ upload_material(current_user)
        /\ FacultyBounded
        /\ FacultyFrame

CreateAssignmentStep ==
    \E current_user \in FacultyActors \cap DOMAIN users, assigned_to \in AssignedTo :
        /\ create_assignment(current_user, assigned_to)
        /\ FacultyBounded
        /\ FacultyFrame

CreateTestStep ==
    \E current_user \in FacultyActors \cap DOMAIN users :
        /\ create_test(current_user)
        /\ FacultyBounded
        /\ FacultyFrame

GenerateTestQuestionsStep ==
    \E current_user \in FacultyActors \cap DOMAIN users :
        /\ generate_test_questions(current_user)
        /\ FacultyFrame

AnswerQueryStep ==
    \E current_user \in FacultyActors \cap DOMAIN users, query_id \in QueryIds :
        /\ answer_query(current_user, query_id)
        /\ FacultyBounded
        /\ FacultyFrame

UpdateFacultyProfileStep ==
    \E current_user \in FacultyActors \cap DOMAIN users, update_data \in ProfileUpdates :
        /\ update_faculty_profile(current_user, update_data)
        /\ FacultyFrame

VerifyFacultyStep ==
    \E user_id \in FacultyActors, current_user \in {"adm1", "fac1"} :
        /\ verify_faculty(user_id, current_user)
        /\ FacultyBounded
        /\ FacultyFrame

VerifyUserStep ==
    \E user_id \in FacultyActors, current_user \in {"adm1", "fac1"} :
        /\ verify_user(user_id, current_user)
        /\ FacultyFrame

NextFaculty ==
    \/ FacultyVerifyOtpStep
    \/ UploadMaterialStep
    \/ CreateAssignmentStep
    \/ CreateTestStep
    \/ GenerateTestQuestionsStep
    \/ AnswerQueryStep
    \/ UpdateFacultyProfileStep
    \/ VerifyFacultyStep
    \/ VerifyUserStep

SpecFaculty == InitFaculty /\ [][NextFaculty]_vars

(***************************************************************************)
(* The rate limiter on the mounted paths of the routers                    *)
(***************************************************************************)
MaxLimitRequests == 7
LimitEndpoints == {"login", "handle_payment_webhook", "ai_query"}

\* no request has been seen yet
InitLimit ==
    /\ now = 0
    /\ payments = <<>>
    /\ users = InitUsers
    /\ transactions = <<>>
    /\ sessions = <<>>
    /\ notifications = <<>>
    /\ result = NoCall
    /\ last = NoExchange
    /\ otps = <<>>
    /\ otpCalls = <<>>
    /\ evaluation = None
    /\ colleges = <<>>
    /\ subjects = <<>>
    /\ courses = <<>>
    /\ cache = <<>>
    /\ temp_registrations = <<>>
    /\ content = NoContent
    /\ time_time = 0
    /\ requests = <<>>
    /\ rate_limiter = [key \in RateClients |-> <<>>]

\* a client sends its next request once the middleware has dealt with the
\* previous one; what the route does with an admitted request is not part of
\* this specification
ReceiveLimitRequestStep ==
    \E endpoint \in LimitEndpoints :
        /\ Len(requests) < MaxLimitRequests
        /\ \A r \in DOMAIN requests :
              requests[r].pc \notin {"validation_middleware", "rate_limiting_middleware"}
        /\ requests' = Append(requests,
              NewRequest(endpoint, [valid |-> FALSE, user_id |-> None, role |-> None],
                         FALSE, endpoint))
        /\ last' = Respond("receive", endpoint, 0, {})
        /\ UNCHANGED <<now, payments, users, transactions, sessions, notifications, result>>
        /\ UNCHANGED <<otpVars, evaluation, colleges, subjects, courses, rate_limiter, auxVars>>

LimitTickStep ==
    /\ time_time < 60
    /\ RateTickStep

NextLimit ==
    \/ ReceiveLimitRequestStep
    \/ LimitTickStep
    \/ ValidationMiddlewareStep
    \/ RateLimitingMiddlewareStep

SpecLimit == InitLimit /\ [][NextLimit]_vars

(***************************************************************************)
(* Claims about the payment service                                        *)
(***************************************************************************)
\* The step just taken called PaymentService.verify_payment
ReachedVerifyPayment(exchange) ==
    \/ exchange.op = "verify_payment"
    \/ /\ exchange.op = "handle_payment_webhook"
       /\ exchange.args.gateway = "razorpay"
       /\ exchange.args.event = "payment.captured"

VerifiedPaymentId(exchange) ==
    IF exchange.op = "verify_payment"
    THEN exchange.args.payment_id
    ELSE ConvertEntityId(exchange.args.entity_id)

VerifiedGatewayData(exchange) ==
    IF exchange.op = "verify_payment"
    THEN exchange.args.gateway_data
    ELSE exchange.args.entity_status

\* C1: payment status follows created -> completed/refunded/expired: a payment
\* is created with status created by initiate_payment, only verify_payment sets
\* completed or expired, only process_refund sets refunded, and a refunded or
\* expired payment never becomes completed afterwards.
C1_PaymentLifecycle ==
    [][\A i \in DOMAIN payments' :
          IF i \notin DOMAIN payments
          THEN payments'[i].status = "created" /\ last'.op = "initiate_payment"
          ELSE /\ (payments'[i].status # payments[i].status
                     /\ payments'[i].status \in {"completed", "expired"}
                   => ReachedVerifyPayment(last'))
               /\ (payments'[i].status # payments[i].status
                     /\ payments'[i].status = "refunded"
                   => last'.op = "refund_payment")
               /\ (payments[i].status \in {"refunded", "expired"}
                   => payments'[i].status # "completed")]_vars

\* C2: verify_payment, reached through the verify endpoint or a gateway webhook,
\* marks a payment completed and credits the wallet only when the payment
\* exists, has not passed expires_at and the signature check of its gateway
\* passes; in every other case it returns success = false and leaves the
\* wallet balances and the transactions unchanged.
C2_VerifyOnlyWhenValid ==
    [][ReachedVerifyPayment(last') =>
          LET pid == VerifiedPaymentId(last')
              valid == /\ pid \in DOMAIN payments
                       /\ payments[pid].expires_at >= now
                       /\ _verify_gateway_signature(payments[pid], last'.args.signature,
                                                    VerifiedGatewayData(last'))
          IN  IF valid
              THEN /\ result'.success
                   /\ payments'[pid].status = "completed"
                   /\ payments[pid].purpose = "wallet_recharge"
                      => users'[payments[pid].user_id].wallet_balance
                           = users[payments[pid].user_id].wallet_balance + payments[pid].amount
              ELSE /\ ~ result'.success
                   /\ users' = users
                   /\ transactions' = transactions
                   /\ \A i \in DOMAIN payments :
                         payments'[i].status = "completed" => payments[i].status = "completed"
       ]_vars

\* C2 witness: a webhook reached verify_payment, which completed the payment
\* and credited the wallet
C2_Witness ==
    /\ last.op = "handle_payment_webhook"
    /\ result.success
    /\ ReachedVerifyPayment(last)
    /\ payments[VerifiedPaymentId(last)].status = "completed"
    /\ users["stu1"].wallet_balance > 0

(***************************************************************************)
(* Claims about sessions                                                   *)
(***************************************************************************)
\* C3: session status follows pending -> accepted/rejected/completed/cancelled:
\* book_session creates the session with status pending and payment_status
\* pending, update_session only ever sets accepted, rejected, completed or
\* cancelled, and no operation returns a session to pending.
C3_SessionLifecycle ==
    [][\A i \in DOMAIN sessions' :
          IF i \notin DOMAIN sessions
          THEN /\ last'.op = "book_session"
               /\ sessions'[i].status = "pending"
               /\ sessions'[i].payment_status = "pending"
          ELSE /\ sessions'[i].status # sessions[i].status
                  => /\ last'.op = "update_session"
                     /\ sessions'[i].status
                          \in {"accepted", "rejected", "completed", "cancelled"}
               /\ sessions'[i].status = "pending" => sessions[i].status = "pending"
       ]_vars

\* C3 witness: a booked session has left pending through update_session
C3_Witness ==
    /\ last.op = "update_session"
    /\ last.code = 200
    /\ \E i \in DOMAIN sessions : sessions[i].status = "cancelled"

\* C4: book_session succeeds only when the faculty exists with role faculty and
\* verified = true and the student's wallet_balance is at least the amount; on
\* success the wallet decreases by exactly the amount and one debit transaction
\* of that amount is recorded; on failure (404 or 400) no session is created,
\* the wallet is unchanged and no transaction or notification is written.
C4_BookSessionEffect ==
    [][last'.op = "book_session" =>
          LET student_id == last'.args.student_id
              faculty_id == last'.args.faculty_id
              amount == last'.args.amount
          IN  IF last'.code = 200
              THEN /\ faculty_id \in DOMAIN users
                   /\ users[faculty_id].role = "faculty"
                   /\ users[faculty_id].verified = TRUE
                   /\ users[student_id].wallet_balance >= amount
                   /\ users'[student_id].wallet_balance
                        = users[student_id].wallet_balance - amount
                   /\ \A u \in DOMAIN users \ {student_id} : users'[u] = users[u]
                   /\ Len(transactions') = Len(transactions) + 1
                   /\ SubSeq(transactions', 1, Len(transactions)) = transactions
                   /\ transactions'[Len(transactions')].type = "debit"
                   /\ transactions'[Len(transactions')].amount = amount
                   /\ transactions'[Len(transactions')].user_id = student_id
                   /\ Len(sessions') = Len(sessions) + 1
              ELSE /\ last'.code \in {400, 404}
                   /\ sessions' = sessions
                   /\ users' = users
                   /\ transactions' = transactions
                   /\ notifications' = notifications
       ]_vars

\* C4 witness: a booking succeeded and its debit is recorded
C4_Witness ==
    /\ last.op = "book_session"
    /\ last.code = 200
    /\ transactions[Len(transactions)].type = "debit"
    /\ users["stu1"].wallet_balance = StartFunds - 60

\* C10: every successful (2xx) response body of a route handler is the uniform
\* envelope with all four fields success, message, data and timestamp.
C10_UniformEnvelope ==
    last.code \in 200..299
        => {"success", "message", "data", "timestamp"} \subseteq last.body

(***************************************************************************)
(* Claims about the OTP service                                            *)
(***************************************************************************)
\* C5: an OTP is one-time: once verify_otp has returned true for a code, every
\* later or concurrently running verify_otp for the same email, code and
\* purpose returns false, so no two calls return true for one OTP.
C5_OtpOneTime ==
    \A c1, c2 \in DOMAIN otpCalls :
        /\ c1 # c2
        /\ otpCalls[c1].pc = "done" /\ otpCalls[c1].ret
        /\ otpCalls[c2].pc = "done" /\ otpCalls[c2].ret
        /\ otpCalls[c1].email = otpCalls[c2].email
        /\ otpCalls[c1].otp_code = otpCalls[c2].otp_code
        /\ otpCalls[c1].purpose = otpCalls[c2].purpose
        => otpCalls[c1].otp # otpCalls[c2].otp

(***************************************************************************)
(* Claims about test scoring                                               *)
(***************************************************************************)
RECURSIVE SumOver(_, _)
SumOver(f, S) ==
    IF S = {} THEN 0
    ELSE LET x == CHOOSE y \in S : TRUE IN f[x] + SumOver(f, S \ {x})

MarksOf(questions) == [i \in DOMAIN questions |-> questions[i].marks]

CorrectlyAnswered(questions, submitted_answers) ==
    {i \in DOMAIN questions : submitted_answers[i] = questions[i].correct_answer}

ScoresAreSums ==
    LET q == evaluation.questions
        a == evaluation.submitted_answers
        out == evaluation.out
    IN  /\ DOMAIN out = {"score", "total_marks", "percentage", "detailed_results"}
        /\ out.score = SumOver(MarksOf(q), CorrectlyAnswered(q, a))
        /\ out.total_marks = SumOver(MarksOf(q), DOMAIN q)
        /\ (\A i \in DOMAIN q : q[i].marks >= 0)
             => 0 <= out.score /\ out.score <= out.total_marks

OnlyAnError == DOMAIN evaluation.out = {"error"}

RateTable ==
    [razorpay |-> [card |-> 299, upi |-> 0, wallet |-> 199, netbanking |-> 199,
                   bank_transfer |-> 0],
     stripe |-> [card |-> 290, upi |-> 290, wallet |-> 290, netbanking |-> 290,
                 bank_transfer |-> 290],
     paypal |-> [card |-> 290, upi |-> 290, wallet |-> 290, netbanking |-> 290,
                 bank_transfer |-> 290]]

\* fee_amount (cents) is amount x rate plus the fixed part, to the nearest cent
FeeAsCharged(p) ==
    LET exact == p.amount * RateTable[p.gateway][p.payment_method]
                   + (IF p.gateway \in {"stripe", "paypal"} THEN 30 * 10000 ELSE 0)
        off == p.fee_amount * 10000 - exact
    IN  /\ 2 * off <= 10000
        /\ 2 * off >= 0 - 10000
        /\ (p.gateway = "razorpay" /\ p.payment_method \in {"upi", "bank_transfer"})
             => p.fee_amount = 0
        /\ p.total_amount = p.amount + p.fee_amount

\* C7: every stored payment carries fee_amount = amount x rate(gateway,
\* payment_method) plus 0.30 for stripe and paypal, rounded to 2 decimals,
\* razorpay upi and bank_transfer are free, and the stored and the returned
\* total_amount are amount + fee_amount.
C7_FeeCalculation ==
    /\ \A i \in DOMAIN payments : FeeAsCharged(payments[i])
    /\ (last.op = "initiate_payment" /\ last.code = 200) =>
         LET p == payments[Len(payments)]
         IN  /\ p.amount = last.args.amount
             /\ p.gateway = last.args.gateway
             /\ p.payment_method = last.args.payment_method
             /\ result.amount = p.amount
             /\ result.fee_amount = p.fee_amount
             /\ result.total_amount = result.amount + result.fee_amount

\* C7 witness: 50.00 by stripe card costs 1.45 + 0.30 = 1.75, total 51.75
C7_Witness ==
    /\ last.op = "initiate_payment"
    /\ last.code = 200
    /\ payments[Len(payments)].gateway = "stripe"
    /\ payments[Len(payments)].amount = 5000
    /\ payments[Len(payments)].fee_amount = 175
    /\ result.total_amount = 5175

(***************************************************************************)
(* Claims about the role check                                             *)
(***************************************************************************)
InvalidToken(req) == ~ req.token.valid

RoleNotAllowed(req) ==
    req.token.valid /\ req.token.role \notin required_roles(req.endpoint)

C9_ReferencesIntact ==
    /\ \A s \in Live(subjects) : subjects[s].college_id \in Live(colleges)
    /\ \A k \in Live(courses) : courses[k].subject_id \in Live(subjects)

(***************************************************************************)
(* Claims about error responses                                            *)
(***************************************************************************)
\* C11: every error response has an HTTP status in {400, 401, 403, 404, 409,
\* 500} and a JSON body with success (false) and a message.
C11_ErrorEnvelope ==
    last.code >= 400 =>
        /\ last.code \in {400, 401, 403, 404, 409, 500}
        /\ {"success", "message"} \subseteq last.body

(***************************************************************************)
(* Claims about the rate limiter                                           *)
(***************************************************************************)
RateChecked(req) == req.checked_at >= 0

RateAdmitted(req) == RateChecked(req) /\ req.responder # "rate_limiting_middleware"

\* the number of requests of `client` admitted in the `window` seconds from
\* `start`: those of this run and the busy client's earlier ones
AdmittedInWindow(client, start, window) ==
    Cardinality({r \in DOMAIN requests :
                    /\ requests[r].client = client
                    /\ RateAdmitted(requests[r])
                    /\ start <= requests[r].checked_at
                    /\ requests[r].checked_at < start + window})
    + (IF client = "10.0.0.1"
       THEN Cardinality({i \in DOMAIN EarlierTimes :
                            start <= EarlierTimes[i] /\ EarlierTimes[i] < start + window})
       ELSE 0)

\* C12: for each client, at most 100 requests are admitted within any 60
\* seconds, and a request that is not admitted is answered 429 by the
\* middleware without reaching the dependency or the handler.
C12_RateLimit ==
    /\ \A client \in RateClients :
          \* a window holds the most admissions when it starts at one of them
          \A start \in {0, 30} \cup {requests[r].checked_at : r \in DOMAIN requests} :
             AdmittedInWindow(client, start, 60) <= 100
    /\ \A r \in DOMAIN requests :
          (RateChecked(requests[r]) /\ ~ RateAdmitted(requests[r])) =>
             /\ requests[r].pc = "done"
             /\ requests[r].code = 429
             /\ requests[r].current_user = <<>>
             /\ requests[r].db_calls = 0
    /\ (last.code = 429) => "error_code" \in last.body

\* C12 witness: the busy client has 100 admitted requests within a minute,
\* one request answered 429 and a later one admitted again
C12_Witness ==
    \E r1, r2, r3 \in DOMAIN requests :
        /\ requests[r1].client = "10.0.0.1"
        /\ requests[r2].client = "10.0.0.1"
        /\ requests[r3].client = "10.0.0.1"
        /\ RateAdmitted(requests[r1])
        /\ AdmittedInWindow("10.0.0.1", 0, 60) = 100
        /\ requests[r2].code = 429
        /\ requests[r2].checked_at >= requests[r1].checked_at
        /\ RateAdmitted(requests[r3])
        /\ requests[r3].checked_at > requests[r2].checked_at
        /\ requests[r3].pc = "done"

(***************************************************************************)
(* Claims about the cache                                                  *)
(***************************************************************************)
Unexpired(key) == key \in DOMAIN cache /\ time_time < cache[key].expires

C13_Step ==
    /\ (last'.op = "cache.get" /\ result'.value # None) =>
          /\ last'.args \in DOMAIN cache
          /\ result'.value = cache[last'.args].value
          /\ time_time' - cache[last'.args].stored_at <= cache[last'.args].ttl
    /\ (last'.op = "cache.get" /\ last'.args \in DOMAIN cache /\ ~ Unexpired(last'.args)) =>
          /\ result'.value = None
          /\ last'.args \notin DOMAIN cache'
    /\ \A key \in DOMAIN cache :
          (Unexpired(key) /\ key \notin DOMAIN cache') =>
             last'.op \in {"cache.delete", "cache.clear", "invalidate_cache"}

\* C13: get never returns a value stored more than its ttl seconds earlier,
\* reading an expired entry removes it, and an unexpired entry leaves the
\* cache only through delete, clear or invalidate_cache.
C13_CacheTtl == [][C13_Step]_vars

\* C13 witness: a read returned a value stored earlier while another entry,
\* already expired, is still in the cache
C13_Witness ==
    /\ last.op = "cache.get"
    /\ result.value # None
    /\ last.args \in DOMAIN cache
    /\ cache[last.args].stored_at < time_time
    /\ \E key \in DOMAIN cache : time_time > cache[key].expires

(***************************************************************************)
(* Claims about wallet credits                                             *)
(***************************************************************************)
\* C14: verify_payment, called directly or through a webhook for a payment
\* that is already completed or refunded, neither changes a wallet balance nor
\* adds a transaction.
C14_CreditOnce ==
    [][(/\ ReachedVerifyPayment(last')
        /\ VerifiedPaymentId(last') \in DOMAIN payments
        /\ payments[VerifiedPaymentId(last')].status \in {"completed", "refunded"})
       => /\ users' = users
          /\ transactions' = transactions]_vars

\* the amount process_refund refunds: the requested one, or the whole payment
RefundAmountOf(payment, amount) == IF amount # 0 THEN amount ELSE payment.amount

Refundable(payment_id, amount) ==
    /\ payment_id \in DOMAIN payments
    /\ payments[payment_id].status = "completed"
    /\ RefundAmountOf(payments[payment_id], amount) <= payments[payment_id].amount

C16_Step ==
    last'.op = "refund_payment" =>
        LET payment_id == last'.args.payment_id
            amount == last'.args.amount
        IN  IF Refundable(payment_id, amount)
            THEN LET payment == payments[payment_id]
                     refund_amount == RefundAmountOf(payment, amount)
                 IN  /\ result'.success
                     /\ last'.code = 200
                     /\ payments'[payment_id].status = "refunded"
                     /\ users'[payment.user_id].wallet_balance
                           = users[payment.user_id].wallet_balance + refund_amount
                     /\ \A u \in DOMAIN users \ {payment.user_id} : users'[u] = users[u]
                     /\ Len(transactions') = Len(transactions) + 1
                     /\ SubSeq(transactions', 1, Len(transactions)) = transactions
                     /\ transactions'[Len(transactions')].type = "credit"
                     /\ transactions'[Len(transactions')].amount = refund_amount
                     /\ transactions'[Len(transactions')].user_id = payment.user_id
            ELSE /\ ~ result'.success
                 /\ last'.code = 400
                 /\ payments' = payments
                 /\ users' = users
                 /\ transactions' = transactions

\* C16: process_refund succeeds only for a completed payment and a refund
\* amount not above the payment amount; on success the payment is refunded, the
\* wallet is credited by the refund amount and one credit transaction is
\* recorded; otherwise it returns success = false and changes nothing.
C16_ProcessRefund == [][C16_Step]_vars

\* C16 witness: a partial refund of a completed payment went through
C16_Witness ==
    /\ last.op = "refund_payment"
    /\ last.code = 200
    /\ last.args.amount = 40
    /\ payments[last.args.payment_id].status = "refunded"
    /\ users[payments[last.args.payment_id].user_id].wallet_balance >= 40
    /\ \E t \in DOMAIN transactions :
          transactions[t].reference_id = RefundRef(last.args.payment_id)

LedgerSum(user_id, type) ==
    SumOver([t \in DOMAIN transactions |-> transactions[t].amount],
            {t \in DOMAIN transactions :
                transactions[t].user_id = user_id /\ transactions[t].type = type})

\* C17: every user's wallet_balance equals the sum of the user's credit
\* transactions minus the sum of the user's debit transactions.
C17_WalletLedger ==
    \A user_id \in DOMAIN users :
        users[user_id].wallet_balance
            = LedgerSum(user_id, "credit") - LedgerSum(user_id, "debit")

(***************************************************************************)
(* Claims about session refunds                                            *)
(***************************************************************************)
\* what the student's wallet got back for the session, and what it paid
SessionRefunded(session_id) ==
    SumOver([t \in DOMAIN transactions |-> transactions[t].amount],
            {t \in DOMAIN transactions :
                /\ transactions[t].reference_id = SessionRef(session_id)
                /\ transactions[t].type = "credit"})

SessionDebited(session_id) ==
    SumOver([t \in DOMAIN transactions |-> transactions[t].amount],
            {t \in DOMAIN transactions :
                /\ transactions[t].reference_id = SessionRef(session_id)
                /\ transactions[t].type = "debit"})

\* C15: for each session, over any sequence of update_session calls, the
\* total amount credited back to the student never exceeds the amount debited
\* when the session was booked (sessions booked for a positive amount).
C15_RefundOnce ==
    \A session_id \in DOMAIN sessions :
        sessions[session_id].amount > 0 =>
            SessionRefunded(session_id) <= SessionDebited(session_id)

(***************************************************************************)
(* Claims about concurrent bookings                                        *)
(***************************************************************************)
\* C18: no wallet_balance is negative in any reachable state, also when
\* book_session requests of one student interleave between the balance check
\* and the decrement.
C18_WalletNonNegative ==
    \A user_id \in DOMAIN users : users[user_id].wallet_balance >= 0

(***************************************************************************)
(* Claims about accounts                                                   *)
(***************************************************************************)
\* C19: reset_password changes a stored password hash exactly when it answers
\* with success; when it answers with an error every stored hash is unchanged.
C19_ResetPassword ==
    [][last'.op = "reset_password" =>
          ((\E u \in DOMAIN users : users'[u].hashed_password # users[u].hashed_password)
              <=> last'.code = 200)]_vars

\* a register request the claim expects to go through
Registrable(email, role) ==
    /\ validate_email(email)
    /\ UsersByEmail(email) = {}
    /\ role \in {"student", "faculty"}
    /\ \A t \in DOMAIN temp_registrations :
          temp_registrations[t].email = email => temp_registrations[t].expires_at < now

RegistrationOtps(all, email) ==
    {i \in DOMAIN all : all[i].email = email /\ all[i].purpose = "registration"}

\* C20: a register request with a valid unregistered email, role student or
\* faculty and no unexpired pending registration stores a temporary
\* registration that expires 10 minutes later, issues one registration OTP and
\* creates no user document; a registered email or an unexpired pending
\* registration is answered 409 and stores nothing.
C20_Register ==
    [][last'.op = "register" =>
          LET email == last'.args.email
              role == last'.args.role
          IN  IF Registrable(email, role)
              THEN /\ \E t \in DOMAIN temp_registrations' :
                         /\ temp_registrations'[t].email = email
                         /\ temp_registrations'[t].expires_at = now + 10
                   /\ Cardinality(RegistrationOtps(otps', email))
                         = Cardinality(RegistrationOtps(otps, email)) + 1
                   /\ users' = users
              ELSE (validate_email(email) /\ role \in {"student", "faculty"}) =>
                      /\ last'.code = 409
                      /\ temp_registrations' = temp_registrations
                      /\ otps' = otps
                      /\ users' = users]_vars

\* the OTP documents in `all` that verify_otp would accept at time `time`
Verifiable(all, time, email, purpose) ==
    {i \in DOMAIN all :
        /\ all[i].email = email
        /\ all[i].purpose = purpose
        /\ all[i].is_used = FALSE
        /\ all[i].expires_at > time}

C22_Step ==
    (last'.op = "resend_otp" /\ last'.code = 200) =>
        LET email == last'.args.email
            purpose == last'.args.purpose
            issued == Len(otps')
        IN  /\ issued = Len(otps) + 1
            /\ otps'[issued].email = email
            /\ otps'[issued].purpose = purpose
            /\ Verifiable(otps', now', email, purpose) = {issued}
            /\ \A i \in DOMAIN otps :
                  IF otps[i].email = email /\ otps[i].purpose = purpose
                  THEN otps'[i] = [otps[i] EXCEPT !.is_used = TRUE]
                  ELSE otps'[i] = otps[i]

LockedOut(email) ==
    /\ FindTemp(email) # 0
    /\ temp_registrations[FindTemp(email)].attempts >= 5

\* the last exchange was a successful resend-otp for the registration of the
\* e-mail, which is still pending and unexpired, and `otp_code` is the new code
ResentFor(email, otp_code) ==
    /\ last.op = "resend_otp"
    /\ last.code = 200
    /\ last.args.email = email
    /\ last.args.purpose = "registration"
    /\ otps[Len(otps)].otp_code = otp_code
    /\ FindTemp(email) # 0
    /\ temp_registrations[FindTemp(email)].expires_at > now
    /\ UsersByEmail(email) = {}

C21_Step ==
    last'.op = "verify_otp" =>
        /\ (LockedOut(last'.args.email)
              /\ last'.args.purpose \in {"registration", "login", "password_reset"}) =>
              /\ last'.code = 400
              /\ result'.message = "Too many failed attempts. Please request a new OTP."
              /\ otps' = otps
              /\ users' = users
              /\ temp_registrations' = temp_registrations
        /\ (ResentFor(last'.args.email, last'.args.otp_code)
              /\ last'.args.purpose = "registration") =>
              /\ last'.code = 200
              /\ otps'[Len(otps)].is_used

UnverifiedFaculty(u) ==
    /\ u \in DOMAIN users
    /\ users[u].role = "faculty"
    /\ ~ users[u].verified

C23_Step ==
    /\ \A u \in DOMAIN users' \ DOMAIN users :
          users'[u].verified = (users'[u].role = "student")
    /\ \A u \in DOMAIN users :
          (UnverifiedFaculty(u) /\ users'[u].verified) =>
              /\ last'.op \in {"verify_faculty", "verify_user"}
              /\ last'.code = 200
              /\ last'.args.user_id = u
              /\ users[last'.args.current_user].role = "admin"
    /\ (last'.op \in FacultyOps /\ UnverifiedFaculty(last'.args.current_user)) =>
          /\ last'.code = 403
          /\ content' = content
          /\ notifications' = notifications
          /\ users' = users

MountedGroup(endpoint) ==
    LET path == EndpointPath(endpoint)
    IN  IF path[3] = "auth" THEN "auth"
        ELSE IF path[3] = "payment" /\ path[4] = "webhook" THEN "webhook"
        ELSE IF path[3] = "ai" THEN "ai"
        ELSE "api"

\* the requests of `client` to endpoints of `group` that the middleware
\* admitted in the `window` seconds from `start`
GroupAdmitted(client, group, start, window) ==
    {r \in DOMAIN requests :
        /\ requests[r].client = client
        /\ MountedGroup(requests[r].endpoint) = group
        /\ RateAdmitted(requests[r])
        /\ start <= requests[r].checked_at
        /\ requests[r].checked_at < start + window}

\* C24: per client and per minute the middleware admits at most 5 requests to
\* the authentication endpoints, 10 to the payment webhook endpoints, 50 to the
\* AI endpoints and 100 to the others, under the paths the routers are mounted
\* at.
C24_PathLimits ==
    \A client \in RateClients, group \in DOMAIN rate_limits :
        \A r \in DOMAIN requests :
            RateChecked(requests[r]) =>
                Cardinality(GroupAdmitted(client, group, requests[r].checked_at,
                                          rate_limits[group].window))
                    <= rate_limits[group].limit

====
